---------------------------- MODULE Spec2Model ----------------------------
(***************************************************************************)
(* Verification model of wileysdm/arbitrage.                               *)
(*                                                                         *)
(*   SpecDM    DepthMaintainer (exchanges/orderbook_ws.py): the websocket  *)
(*             callback thread, the sync thread, the watchdog thread and   *)
(*             readers of get_levels, sharing one non-reentrant lock.      *)
(*   FairSpecDM  the same with weak fairness on every thread.              *)
(*   SpecOB    run_orderbook_ws (data/adapters/binance/ws_orderbook.py).   *)
(*   SpecCand  the candidate engine and try_enter_unified                  *)
(*             (strategy/logic.py), inputs drawn at Init.                  *)
(*   SpecHyb   _hybrid_maker_then_taker (strategy/logic.py) against a      *)
(*             venue that fills, notifies and fails on its own schedule.   *)
(*   SpecExit  try_exit_unified (strategy/logic.py) on an open position.   *)
(*   SpecBus   Bus (data/bus.py) with its publishers and one subscriber.   *)
(*   SpecPM    PendingManager (strategy/pending.py) with two callers.      *)
(*   SpecEnter try_enter_unified together with the executor it awaits.     *)
(*   SpecFeed  Runner.loop calling try_enter_unified on the book that      *)
(*             run_orderbook_ws publishes, with a clock.                   *)
(*   SpecRound Runner.loop from a taker-mode entry to the exit.            *)
(*   SpecLegs  try_enter_unified on two books with their own timestamps.   *)
(*   SpecObTimed  the order-book pump with its snapshot interval clock.    *)
(*   SpecExitLoop Runner.loop polling try_exit_unified for one Position.   *)
(*   SpecLoop  Runner.loop at try_enter_unified, taker and hybrid modes.   *)
(*                                                                         *)
(* Each specification moves the variables of the components it names and   *)
(* leaves the others at their idle values.                                 *)
(*                                                                         *)
(* Units.  Update ids are small naturals; book prices of the depth models  *)
(* are ticks and their quantities lots.  In the strategy models a price is *)
(* an integer number of USD, a quantity is an integer number of            *)
(* thousandths of a unit (1000 = one coin, or one contract on COIN-M), and *)
(* a spread in basis points is the exact fraction [num, den] of the        *)
(* quotient the code computes in floating point.                           *)
(***************************************************************************)
EXTENDS Integers, Sequences, FiniteSets, TLC

\* ------------------------------------------------------------------ bounds
\* Largest update id the venue emits in a run.
MaxSeq == 4
\* Calls of _hybrid_maker_then_taker in a run (one maker order id each).
MaxCalls == 2

\* ------------------------------------------------------- shared vocabulary
\* x.get("pu") is None: the venue (spot) supplies no previous-final id.
NoPu == -1

Prices == {1, 2}

\* The (b, a) payloads the venue sends in this model.
Deltas ==
    { [b |-> << <<1, 2>> >>, a |-> << <<2, 1>> >>],
      [b |-> << <<1, 0>>, <<2, 1>> >>, a |-> << <<2, 0>>, <<1, 2>> >>] }

\* REST /depth bodies: bids and asks as lists of (price, quantity).
SnapshotBodies ==
    { [bids |-> << <<1, 1>> >>, asks |-> << <<2, 1>> >>],
      [bids |-> << <<2, 2>> >>, asks |-> << <<1, 0>>, <<2, 2>> >>] }

EmptyBook == << >>

VARIABLES
    \* ---- DepthMaintainer (BookState and the object's fields)
    bids,            \* state.bids : price -> quantity (a partial map)
    asks,            \* state.asks
    last_update_id,  \* state.last_update_id
    last_u,          \* state.last_u
    ready,           \* state.ready
    buf,             \* self.buf
    resyncing,       \* self._resyncing
    lockHolder,      \* self.lock: "none", or the thread that holds it across steps
    wsPc,            \* websocket thread: "idle" | "trigger"
    syncPc,          \* sync thread: "top" | "drain" | "apply" | "set_ready" | "finally"
    wdPc,            \* watchdog thread: "idle" | "trigger"
    cached,          \* _drain_buffer_after_snapshot's local copy of buf
    venue,           \* "spot" (no pu) or "coinm" (pu supplied)
    venueU,          \* final update id of the last event the venue emitted
    snapBody,        \* the snapshot body the current resync started from
    applied,         \* the last diff _on_msg applied: <<U, u, pu, last_u before>>
    lvlOk,           \* ok of the last get_levels call
    violation,       \* a diff failed continuity in READY and no resync completed since
    evtSince,        \* a close/error event arrived and no snapshot was fetched since
    \* ---- run_orderbook_ws (locals of the coroutine)
    obBids,          \* bids_book
    obAsks,          \* asks_book
    obLastU,         \* last_u
    obPc,            \* "connect" (outer loop, before the snapshot) | "loop"
    obKind,          \* kind: "spot" (no pu) or "coinm"
    obVenueU,        \* final update id of the last event the venue emitted
    obPub,           \* Bus.latest(Topic.ORDERBOOK, sym_u)
    obPubTs,         \* its ts
    obNow,           \* time.time(), in ticks
    obSnapTs,        \* last_snapshot_ts
    obSnapAt,        \* when the REST snapshot in use was installed
    \* ---- candidate engine and try_enter_unified
    cQuote,          \* quote.get_books(limit=1): [bids, asks], lists of <<px, qty>>
    cHedge,          \* hedge.get_books(limit=1)
    cCfg,            \* QUOTE_KIND, HEDGE_KIND, ONLY_POSITIVE_CARRY, EXECUTION_MODE, DRY_RUN
    cEnv,            \* market data fresh?, last-minute volumes of the two legs
    cRowsG,          \* (rows_pos, rows_neg) of the last _get_candidate
    cRowsC,          \* (rows_pos, rows_neg) of the last _collect_unified_candidates
    cCand,           \* cand chosen by try_enter_unified
    cOrders,         \* market orders try_enter_unified sent, in order
    cRet,            \* what try_enter_unified returned
    \* ---- _hybrid_maker_then_taker
    hPc,             \* position in the coroutine
    hCfg,            \* maker_is_hedge, kinds of the two legs, DRY_RUN
    hArgs,           \* side, maker_qty, taker_qty of the current call
    hOid,            \* maker_oid of the current call (0: none yet)
    mkOrder,         \* the maker order at the venue: state, qty, filled, side
    hUds,            \* user-stream fill event in flight
    hNotif,          \* fill_data the wait returned
    hFilled,         \* filled_qty_timeout / filled_qty
    hPath,           \* "none" | "timeout" | "notify"
    hCancel,         \* outcome of maker_leg.cancel: "none" | "ok" | "raised"
    takerOrders,     \* taker market orders sent, over all calls
    hRet,            \* return value: "none" | "true" | "false"
    \* ---- try_exit_unified
    xPos,            \* the open Position, or NoPosition
    xRefs,           \* quote.ref_price(), hedge.ref_price()
    xHeld,           \* time.time() - position.t0, in seconds
    xCfg,            \* EXIT_BPS, STOP_BPS, MAX_HOLD_SEC, kinds, DRY_RUN
    xOrders,         \* market orders the last call sent
    xRet,            \* what the last call returned
    \* ---- Bus (data/bus.py) and the tasks Bus.publish creates
    bLatest,         \* self._latest : (topic, key) -> value
    bTasks,          \* publish_async tasks created and not yet run, oldest first
    bSubs,           \* subscriber -> its registration, queue and what it has yielded
    bPubN,           \* number of Bus.publish calls so far (the id of the last value)
    bLog,            \* the (topic, key, value) publish_async has run, in order
    \* ---- PendingManager (strategy/pending.py)
    pmOrders,        \* self._orders: the set of (key, order object) entries
    pmCall,          \* caller -> its register call: pc, arguments, return value
    pmObj            \* caller -> the PendingHybridOrder its call created

dmVars == <<bids, asks, last_update_id, last_u, ready, buf, resyncing, lockHolder,
            wsPc, syncPc, wdPc, cached, venue, venueU, snapBody, applied, lvlOk,
            violation, evtSince>>
obVars == <<obBids, obAsks, obLastU, obPc, obKind, obVenueU, obPub, obPubTs, obNow,
            obSnapTs, obSnapAt>>
candVars == <<cQuote, cHedge, cCfg, cEnv, cRowsG, cRowsC, cCand, cOrders, cRet>>
hybVars == <<hPc, hCfg, hArgs, hOid, mkOrder, hUds, hNotif, hFilled, hPath, hCancel,
             takerOrders, hRet>>
exitVars == <<xPos, xRefs, xHeld, xCfg, xOrders, xRet>>
busVars == <<bLatest, bTasks, bSubs, bPubN, bLog>>
\* The components added after the first five.
pmVars == <<pmOrders, pmCall, pmObj>>
restVars == <<busVars, pmVars>>

vars == <<dmVars, obVars, candVars, hybVars, exitVars, restVars>>

nonDmVars == <<obVars, candVars, hybVars, exitVars, restVars>>
nonObVars == <<dmVars, candVars, hybVars, exitVars, restVars>>
nonCandVars == <<dmVars, obVars, hybVars, exitVars, restVars>>
nonHybVars == <<dmVars, obVars, candVars, exitVars, restVars>>
nonExitVars == <<dmVars, obVars, candVars, hybVars, restVars>>
coreVars == <<dmVars, obVars, candVars, hybVars, exitVars>>
nonBusVars == <<coreVars, pmVars>>
nonPmVars == <<coreVars, busVars>>

NoApplied == << >>
NoSnap == [bids |-> << >>, asks |-> << >>]
NoOb == [bids |-> EmptyBook, asks |-> EmptyBook]
NoRows == [pos |-> << >>, neg |-> << >>]
NoCand == [side |-> "none"]
NoPosition == [side |-> "none"]
NoFill == [lastQty |-> 0, cumQty |-> 0]
NoOrder == [state |-> "none", qty |-> 0, filled |-> 0, side |-> "none"]
NoArgs == [side |-> "none", maker_qty |-> 0, taker_qty |-> 0]
\* latest(topic, key) when nothing was published: None.
NoValue == [id |-> 0, kind |-> "none"]
\* A subscriber that has not called subscribe.
NoSub == [mode |-> "none", topic |-> "", key |-> "", q |-> << >>, got |-> << >>,
          first |-> NoValue, regIdx |-> 0, dropped |-> {}]

\* ------------------------------------------------ idle values of each part
IdleDM ==
    /\ bids = EmptyBook /\ asks = EmptyBook
    /\ last_update_id = 0 /\ last_u = 0
    /\ ready = FALSE
    /\ buf = << >>
    /\ resyncing = FALSE
    /\ lockHolder = "none"
    /\ wsPc = "idle" /\ syncPc = "top" /\ wdPc = "idle"
    /\ cached = << >>
    /\ venue = "spot"
    /\ venueU = 0
    /\ snapBody = NoSnap
    /\ applied = NoApplied
    /\ lvlOk = FALSE
    /\ violation = FALSE
    /\ evtSince = FALSE

IdleOB ==
    /\ obBids = EmptyBook /\ obAsks = EmptyBook
    /\ obLastU = 0
    /\ obPc = "connect"
    /\ obKind = "spot"
    /\ obVenueU = 0
    /\ obPub = NoOb
    /\ obPubTs = 0
    /\ obNow = 0
    /\ obSnapTs = 0 /\ obSnapAt = 0

IdleCand ==
    /\ cQuote = NoOb /\ cHedge = NoOb
    /\ cCfg = [quote |-> "usdtm", hedge |-> "coinm", only_pos |-> FALSE,
               mode |-> "taker", dry |-> FALSE]
    /\ cEnv = [fresh |-> FALSE, qvol |-> 0, hvol |-> 0, qref |-> 0, href |-> 0]
    /\ cRowsG = NoRows /\ cRowsC = NoRows
    /\ cCand = NoCand
    /\ cOrders = << >>
    /\ cRet = "none"

IdleHyb ==
    /\ hPc = "idle"
    /\ hCfg = [maker_is_hedge |-> FALSE, maker |-> "usdtm", taker |-> "coinm",
               dry |-> FALSE]
    /\ hArgs = NoArgs
    /\ hOid = 0
    /\ mkOrder = NoOrder
    /\ hUds = NoFill /\ hNotif = NoFill
    /\ hFilled = 0
    /\ hPath = "none"
    /\ hCancel = "none"
    /\ takerOrders = << >>
    /\ hRet = "none"

IdleExit ==
    /\ xPos = NoPosition
    /\ xRefs = [q |-> 0, h |-> 0]
    /\ xHeld = 0
    /\ xCfg = [exit |-> [num |-> 0, den |-> 1], stop |-> [num |-> 0, den |-> 1],
               max_hold |-> 0, quote |-> "usdtm", hedge |-> "coinm", dry |-> FALSE]
    /\ xOrders = << >>
    /\ xRet = [called |-> FALSE, triggered |-> FALSE, reason |-> "", raised |-> FALSE]

\* The Bus of a DataService that has published nothing and has no subscriber.
Topics == {"orderbook", "mark"}
\* The legs registered with the DataService: (kind, symbol).
Regs == { <<"spot", "BTCUSDT">>, <<"usdtm", "BTCUSDT">>, <<"coinm", "BTCUSD_PERP">> }
Symbols == { r[2] : r \in Regs }
Subscribers == {"s1"}

IdleBus ==
    /\ bLatest = [tk \in Topics \X Symbols |-> NoValue]
    /\ bTasks = << >>
    /\ bSubs = [s \in Subscribers |-> NoSub]
    /\ bPubN = 0
    /\ bLog = << >>

\* Coroutines that may be inside PendingManager.register at the same time.
Callers == {"c1", "c2"}
\* A register call that has not been made; a PendingHybridOrder not created.
\* A fill payload that is None, and the return value of a call that has not
\* returned.
NoFillData == [orderId |-> 0, market |-> "", status |-> "None"]
NotReturned == [orderId |-> 0, market |-> "", status |-> "pending"]
NoCall == [pc |-> "idle", order_id |-> 0, symbol |-> "", market |-> "", ret |-> NotReturned]
NoPending == [order_id |-> 0, is_set |-> FALSE, fill_data |-> NoFillData]

IdlePM ==
    /\ pmOrders = {}
    /\ pmCall = [c \in Callers |-> NoCall]
    /\ pmObj = [c \in Callers |-> NoPending]

IdleRest == IdleBus /\ IdlePM
IdleCore == IdleDM /\ IdleOB /\ IdleCand /\ IdleHyb /\ IdleExit
\* ------------------------------------------------------------ book helpers
Upsert(book, p, q) == [x \in (DOMAIN book) \cup {p} |-> IF x = p THEN q ELSE book[x]]
Remove(book, p) == [x \in (DOMAIN book) \ {p} |-> book[x]]

\* _apply_side with the zero-quantity test left out: every update is stored.
RECURSIVE _apply_side_KeepZero(_, _)
_apply_side_KeepZero(updates, book) ==
    IF updates = << >> THEN book
    ELSE _apply_side_KeepZero(Tail(updates),
                              Upsert(book, Head(updates)[1], Head(updates)[2]))

\* _apply_side: q == 0 pops the level, any other quantity is stored.
RECURSIVE _apply_side(_, _)
_apply_side(updates, book) ==
    IF updates = << >> THEN book
    ELSE LET p == Head(updates)[1]
             q == Head(updates)[2]
         IN  _apply_side(Tail(updates),
                         IF q = 0 THEN Remove(book, p) ELSE Upsert(book, p, q))

\* {p: q for p, q in levels}: every level of the snapshot is stored as sent.
RECURSIVE SnapshotDict(_)
SnapshotDict(levels) ==
    IF levels = << >> THEN EmptyBook
    ELSE LET n == Len(levels)
             rest == SnapshotDict(SubSeq(levels, 1, n - 1))
         IN  Upsert(rest, levels[n][1], levels[n][2])

\* BookState.top with limit >= |Prices|: the levels whose quantity is > 0.
top(book) == { p \in DOMAIN book : book[p] > 0 }

\* get_levels' ok.
LevelsOk == ready /\ top(bids) # {} /\ top(asks) # {}

\* ------------------------------------------------------- continuity checks
\* The continuity check with the "U > last_u + 1" test left out.
OnMsgCheckNoGapTest(ev, lu) ==
    IF ev.pu # NoPu
    THEN IF ev.pu # lu THEN "gap" ELSE "apply"
    ELSE IF ev.u < lu + 1 THEN "drop" ELSE "apply"

\* _on_msg in READY, and the catch-up loop: "apply", "drop" (an old event of a
\* venue without pu) or "gap".
OnMsgCheck(ev, lu) ==
    IF ev.pu # NoPu
    THEN IF ev.pu # lu THEN "gap" ELSE "apply"
    ELSE IF ev.u < lu + 1 THEN "drop"
         ELSE IF ev.U > lu + 1 THEN "gap" ELSE "apply"

\* Index of the earliest buffered event with U <= lastUpdateId + 1 <= u, 0 if none.
BridgeIdx(evs, S) ==
    LET hits == { i \in 1..Len(evs) : evs[i].U <= S + 1 /\ S + 1 <= evs[i].u }
    IN  IF hits = {} THEN 0 ELSE CHOOSE i \in hits : \A j \in hits : i <= j

\* The catch-up loop over cached[start_idx:]; err is the RuntimeError it raises.
\* The book keeps what was applied before the error.
RECURSIVE CatchUp(_, _, _, _)
CatchUp(evs, bk, ak, au) ==
    IF evs = << >> THEN [bids |-> bk, asks |-> ak, applied_u |-> au, err |-> FALSE]
    ELSE LET ev == Head(evs)
             c == OnMsgCheck(ev, au)
         IN  CASE c = "gap"  -> [bids |-> bk, asks |-> ak, applied_u |-> au, err |-> TRUE]
               [] c = "drop" -> CatchUp(Tail(evs), bk, ak, au)
               [] OTHER      -> CatchUp(Tail(evs), _apply_side(ev.b, bk),
                                        _apply_side(ev.a, ak), ev.u)

\* ------------------------------------------------------------------- Init
InitDM ==
    /\ bids = EmptyBook /\ asks = EmptyBook
    /\ last_update_id = 0 /\ last_u = 0
    /\ ready = FALSE
    /\ buf = << >>
    /\ resyncing = FALSE
    /\ lockHolder = "none"
    /\ wsPc = "idle" /\ syncPc = "top" /\ wdPc = "idle"
    /\ cached = << >>
    /\ venue \in {"spot", "coinm"}
    /\ venueU = 0
    /\ snapBody = NoSnap
    /\ applied = NoApplied
    /\ lvlOk = FALSE
    /\ violation = FALSE
    /\ evtSince = FALSE
    /\ IdleOB /\ IdleCand /\ IdleHyb /\ IdleExit /\ IdleRest

\* ---------------------------------------------------------------- venue
\* The next depthUpdate of the stream: U follows the venue's previous final id.
NextEvents ==
    { [U |-> venueU + 1, u |-> u, pu |-> (IF venue = "spot" THEN NoPu ELSE venueU),
       b |-> d.b, a |-> d.a] :
        u \in { x \in {venueU + 1, venueU + 2} : x <= MaxSeq }, d \in Deltas }

\* An event the venue emitted that never reaches _on_msg (dropped connection).
VenueLose ==
    /\ wsPc = "idle"
    /\ \E ev \in NextEvents : venueU' = ev.u
    /\ UNCHANGED <<bids, asks, last_update_id, last_u, ready, buf, resyncing, lockHolder,
                   wsPc, syncPc, wdPc, cached, venue, snapBody, applied, lvlOk, violation>>
    /\ UNCHANGED evtSince
    /\ UNCHANGED nonDmVars

\* ------------------------------------------------------- websocket thread
\* _on_msg: the whole callback up to its return, or up to the call of
\* _trigger_resync, which it makes with self.lock held.
_on_msg(ev) ==
    /\ wsPc = "idle"
    /\ lockHolder = "none"
    /\ venueU' = ev.u
    /\ IF ~ready
       THEN /\ buf' = Append(buf, ev)
            /\ UNCHANGED <<bids, asks, last_u, applied, wsPc, lockHolder, violation>>
       ELSE LET c == OnMsgCheck(ev, last_u)
            IN  CASE c = "gap" ->
                       /\ wsPc' = "trigger"
                       /\ lockHolder' = "ws"
                       /\ violation' = TRUE
                       /\ UNCHANGED <<bids, asks, last_u, applied, buf>>
                  [] c = "drop" ->
                       UNCHANGED <<bids, asks, last_u, applied, buf, wsPc, lockHolder,
                                   violation>>
                  [] OTHER ->
                       /\ bids' = _apply_side(ev.b, bids)
                       /\ asks' = _apply_side(ev.a, asks)
                       /\ last_u' = ev.u
                       /\ applied' = <<ev.U, ev.u, ev.pu, last_u>>
                       /\ UNCHANGED <<buf, wsPc, lockHolder, violation>>
    /\ UNCHANGED <<last_update_id, ready, resyncing, syncPc, wdPc, cached, venue,
                   snapBody, lvlOk>>
    /\ UNCHANGED evtSince
    /\ UNCHANGED nonDmVars

WsOnMsg == \E ev \in NextEvents : _on_msg(ev)

\* _on_ws_evt("close" | "error"): calls _trigger_resync without the lock held.
_on_ws_evt ==
    /\ wsPc = "idle"
    /\ wsPc' = "trigger"
    /\ UNCHANGED <<bids, asks, last_update_id, last_u, ready, buf, resyncing, lockHolder,
                   syncPc, wdPc, cached, venue, venueU, snapBody, applied, lvlOk, violation>>
    /\ evtSince' = TRUE
    /\ UNCHANGED nonDmVars

\* _trigger_resync, called by thread t: "with self.lock" needs the lock free
\* (threading.Lock is not reentrant, also for the thread that holds it).
TriggerBody ==
    IF ~resyncing
    THEN /\ resyncing' = TRUE
         /\ ready' = FALSE
         /\ buf' = << >>
    ELSE UNCHANGED <<resyncing, ready, buf>>

_trigger_resync(t) ==
    /\ lockHolder = "none"
    /\ \/ /\ t = "ws" /\ wsPc = "trigger"
          /\ wsPc' = "idle" /\ UNCHANGED wdPc
       \/ /\ t = "wd" /\ wdPc = "trigger"
          /\ wdPc' = "idle" /\ UNCHANGED wsPc
    /\ TriggerBody
    /\ UNCHANGED <<bids, asks, last_update_id, last_u, lockHolder, syncPc, cached,
                   venue, venueU, snapBody, applied, lvlOk, violation>>
    /\ UNCHANGED evtSince
    /\ UNCHANGED nonDmVars

TriggerResync == \E t \in {"ws", "wd"} : _trigger_resync(t)

\* ------------------------------------------------------------ sync thread
\* _sync_loop, not ready: fetch the snapshot and install it under the lock.
SyncSnapshot ==
    /\ syncPc = "top"
    /\ ~ready
    /\ lockHolder = "none"
    /\ \E S \in 0..venueU, body \in SnapshotBodies :
          /\ bids' = SnapshotDict(body.bids)
          /\ asks' = SnapshotDict(body.asks)
          /\ last_update_id' = S
          /\ last_u' = S
          /\ snapBody' = body
    /\ applied' = NoApplied
    /\ syncPc' = "drain"
    /\ UNCHANGED <<ready, buf, resyncing, lockHolder, wsPc, wdPc, cached, venue, venueU,
                   lvlOk, violation>>
    /\ evtSince' = FALSE
    /\ UNCHANGED nonDmVars

\* _rest_depth_snapshot raises: except, sleep, finally.
SyncSnapshotFails ==
    /\ syncPc = "top"
    /\ ~ready
    /\ syncPc' = "finally"
    /\ UNCHANGED <<bids, asks, last_update_id, last_u, ready, buf, resyncing, lockHolder,
                   wsPc, wdPc, cached, venue, venueU, snapBody, applied, lvlOk, violation>>
    /\ UNCHANGED evtSince
    /\ UNCHANGED nonDmVars

\* _drain_buffer_after_snapshot, the poll that finds the bridging event.
DrainPoll ==
    /\ syncPc = "drain"
    /\ lockHolder = "none"
    /\ BridgeIdx(buf, last_update_id) # 0
    /\ cached' = buf
    /\ syncPc' = "apply"
    /\ UNCHANGED <<bids, asks, last_update_id, last_u, ready, buf, resyncing, lockHolder,
                   wsPc, wdPc, venue, venueU, snapBody, applied, lvlOk, violation>>
    /\ UNCHANGED evtSince
    /\ UNCHANGED nonDmVars

\* The poll after the deadline that finds none: RuntimeError.
DrainTimeout ==
    /\ syncPc = "drain"
    /\ lockHolder = "none"
    /\ BridgeIdx(buf, last_update_id) = 0
    /\ syncPc' = "finally"
    /\ UNCHANGED <<bids, asks, last_update_id, last_u, ready, buf, resyncing, lockHolder,
                   wsPc, wdPc, cached, venue, venueU, snapBody, applied, lvlOk, violation>>
    /\ UNCHANGED evtSince
    /\ UNCHANGED nonDmVars

\* buf after "for _ in range(len(cached)): if self.buf: self.buf.popleft()".
PopLeft(q, n) == IF n >= Len(q) THEN << >> ELSE SubSeq(q, n + 1, Len(q))

\* Where _sync_loop goes after the catch-up, with the RuntimeError ignored.
AfterCatchUp_IgnoreError(err) == "set_ready"

\* Where _sync_loop goes after the catch-up: the RuntimeError skips
\* "ready = True" and lands in except / finally.
AfterCatchUp(err) == IF err THEN "finally" ELSE "set_ready"

\* The catch-up loop (no lock) and, when it did not raise, the final locked
\* block that stores last_u and pops the copied events.
DrainApply ==
    /\ syncPc = "apply"
    /\ LET k == BridgeIdx(cached, last_update_id)
           r == CatchUp(SubSeq(cached, k, Len(cached)), bids, asks, last_u)
       IN  /\ bids' = r.bids
           /\ asks' = r.asks
           /\ syncPc' = AfterCatchUp(r.err)
           /\ IF r.err
              THEN UNCHANGED <<last_u, buf>>
              ELSE /\ lockHolder = "none"
                   /\ last_u' = r.applied_u
                   /\ buf' = PopLeft(buf, Len(cached))
    /\ UNCHANGED <<last_update_id, ready, resyncing, lockHolder, wsPc, wdPc, cached,
                   venue, venueU, snapBody, applied, lvlOk, violation>>
    /\ UNCHANGED evtSince
    /\ UNCHANGED nonDmVars

\* "with self.lock: self.state.ready = True".
SyncSetReady ==
    /\ syncPc = "set_ready"
    /\ lockHolder = "none"
    /\ ready' = TRUE
    /\ syncPc' = "finally"
    /\ snapBody' = NoSnap
    /\ cached' = << >>
    /\ violation' = FALSE
    /\ UNCHANGED <<bids, asks, last_update_id, last_u, buf, resyncing, lockHolder,
                   wsPc, wdPc, venue, venueU, applied, lvlOk>>
    /\ UNCHANGED evtSince
    /\ UNCHANGED nonDmVars

\* "finally: self._resyncing = False" (no lock).
SyncFinally ==
    /\ syncPc = "finally"
    /\ resyncing' = FALSE
    /\ syncPc' = "top"
    /\ cached' = << >>
    /\ UNCHANGED <<bids, asks, last_update_id, last_u, ready, buf, lockHolder,
                   wsPc, wdPc, venue, venueU, snapBody, applied, lvlOk, violation>>
    /\ UNCHANGED evtSince
    /\ UNCHANGED nonDmVars

\* -------------------------------------------------------- watchdog thread
\* _watchdog_loop: reads ready and last_ts under the lock; age > STALE_SEC is
\* the environment's choice (time is not modelled).
_watchdog_loop ==
    /\ wdPc = "idle"
    /\ lockHolder = "none"
    /\ ready
    /\ wdPc' = "trigger"
    /\ UNCHANGED <<bids, asks, last_update_id, last_u, ready, buf, resyncing, lockHolder,
                   wsPc, syncPc, cached, venue, venueU, snapBody, applied, lvlOk, violation>>
    /\ UNCHANGED evtSince
    /\ UNCHANGED nonDmVars

\* ----------------------------------------------------------------- reader
get_levels ==
    /\ lockHolder = "none"
    /\ lvlOk' = LevelsOk
    /\ UNCHANGED <<bids, asks, last_update_id, last_u, ready, buf, resyncing, lockHolder,
                   wsPc, syncPc, wdPc, cached, venue, venueU, snapBody, applied,
                   violation>>
    /\ UNCHANGED evtSince
    /\ UNCHANGED nonDmVars

WsThread == WsOnMsg \/ _on_ws_evt \/ _trigger_resync("ws")
SyncThread == SyncSnapshot \/ SyncSnapshotFails \/ DrainPoll \/ DrainTimeout
                \/ DrainApply \/ SyncSetReady \/ SyncFinally
WdThread == _watchdog_loop \/ _trigger_resync("wd")

NextDM ==
    \/ WsOnMsg
    \/ _on_ws_evt
    \/ TriggerResync
    \/ VenueLose
    \/ SyncSnapshot
    \/ SyncSnapshotFails
    \/ DrainPoll
    \/ DrainTimeout
    \/ DrainApply
    \/ SyncSetReady
    \/ SyncFinally
    \/ _watchdog_loop
    \/ get_levels

SpecDM == InitDM /\ [][NextDM]_vars

FairSpecDM ==
    /\ InitDM /\ [][NextDM]_vars
    /\ WF_vars(WsThread) /\ WF_vars(SyncThread) /\ WF_vars(WdThread)
    /\ WF_vars(get_levels)


\* ======================================================================
\* run_orderbook_ws (data/adapters/binance/ws_orderbook.py)
\* ======================================================================

\* _apply_updates: qty <= 0 pops the level, qty > 0 upserts it.
RECURSIVE _apply_updates(_, _)
_apply_updates(book, updates) ==
    IF updates = << >> THEN book
    ELSE LET p == Head(updates)[1]
             q == Head(updates)[2]
         IN  _apply_updates(IF q <= 0 THEN Remove(book, p) ELSE Upsert(book, p, q),
                            Tail(updates))

\* _sorted_top with levels >= |Prices|: the levels with q > 0 (as a map; the
\* order of the list is the order of the prices).
_sorted_top(book) == [p \in { x \in DOMAIN book : book[x] > 0 } |-> book[p]]

\* "if bids and asks: bus.publish(Topic.ORDERBOOK, sym_u, ob)": the value that
\* latest(ORDERBOOK, sym_u) holds afterwards.
Published(bk, ak, old) ==
    IF DOMAIN _sorted_top(bk) # {} /\ DOMAIN _sorted_top(ak) # {}
    THEN [bids |-> _sorted_top(bk), asks |-> _sorted_top(ak)]
    ELSE old

\* The ts of that value: now when the book is published.
PublishedTs(bk, ak, old) ==
    IF DOMAIN _sorted_top(bk) # {} /\ DOMAIN _sorted_top(ak) # {} THEN obNow ELSE old

ObNextEvents ==
    { [U |-> obVenueU + 1, u |-> u, pu |-> (IF obKind = "spot" THEN NoPu ELSE obVenueU),
       b |-> d.b, a |-> d.a] :
        u \in { x \in {obVenueU + 1, obVenueU + 2} : x <= MaxSeq }, d \in Deltas }

InitOB ==
    /\ obBids = EmptyBook /\ obAsks = EmptyBook
    /\ obLastU = 0
    /\ obPc = "connect"
    /\ obKind \in {"spot", "coinm"}
    /\ obVenueU = 0
    /\ obPub = NoOb
    /\ obPubTs = 0
    /\ obNow = 0
    /\ obSnapTs = 0 /\ obSnapAt = 0
    /\ IdleDM /\ IdleCand /\ IdleHyb /\ IdleExit /\ IdleRest

\* An update the venue emitted that this connection never receives.
ObVenueLose ==
    /\ \E ev \in ObNextEvents : obVenueU' = ev.u
    /\ UNCHANGED <<obBids, obAsks, obLastU, obPc, obKind, obPub, obPubTs, obNow,
                   obSnapTs, obSnapAt>>
    /\ UNCHANGED nonObVars

\* websockets.connect succeeded; REST snapshot fetched, installed and published.
\* The snapshot is at most one update ahead of what the socket has delivered.
ObConnectSnapshot ==
    /\ obPc = "connect"
    /\ \E S \in 0..(IF obVenueU + 1 <= MaxSeq THEN obVenueU + 1 ELSE MaxSeq),
          body \in SnapshotBodies :
          LET bk == _apply_updates(EmptyBook, body.bids)
              ak == _apply_updates(EmptyBook, body.asks)
          IN  /\ obBids' = bk
              /\ obAsks' = ak
              /\ obLastU' = S
              /\ obPub' = Published(bk, ak, obPub)
              /\ obPubTs' = PublishedTs(bk, ak, obPubTs)
    /\ obSnapTs' = obNow /\ obSnapAt' = obNow
    /\ obPc' = "loop"
    /\ UNCHANGED <<obKind, obVenueU, obNow>>
    /\ UNCHANGED nonObVars

\* One iteration of "async for raw in ws" past the snapshot-interval test.
ObOnDiff(ev) ==
    /\ obPc = "loop"
    /\ obVenueU' = ev.u
    /\ IF ev.u <= obLastU
       THEN UNCHANGED <<obBids, obAsks, obLastU, obPc, obPub, obPubTs, obSnapTs>>
       ELSE IF ev.pu # NoPu /\ ev.pu # obLastU
            THEN /\ obPc' = "connect"
                 /\ UNCHANGED <<obBids, obAsks, obLastU, obPub, obPubTs, obSnapTs>>
            ELSE LET bk == _apply_updates(obBids, ev.b)
                     ak == _apply_updates(obAsks, ev.a)
                 IN  /\ obBids' = bk
                     /\ obAsks' = ak
                     /\ obLastU' = ev.u
                     /\ obPub' = Published(bk, ak, obPub)
                     /\ obPubTs' = PublishedTs(bk, ak, obPubTs)
                     /\ obSnapTs' = obNow
                     /\ UNCHANGED obPc
    /\ UNCHANGED <<obKind, obNow, obSnapAt>>
    /\ UNCHANGED nonObVars

ObRecv == \E ev \in ObNextEvents : ObOnDiff(ev)

\* A message arrives when now - last_snapshot_ts >= snapshot_interval: break
\* before the message is parsed.
ObIntervalBreak ==
    /\ obPc = "loop"
    /\ \E ev \in ObNextEvents : obVenueU' = ev.u
    /\ obPc' = "connect"
    /\ UNCHANGED <<obBids, obAsks, obLastU, obKind, obPub, obPubTs, obNow, obSnapTs, obSnapAt>>
    /\ UNCHANGED nonObVars

\* The socket raises (connection closed): except, sleep, reconnect.
ObDisconnect ==
    /\ obPc = "loop"
    /\ obPc' = "connect"
    /\ UNCHANGED <<obBids, obAsks, obLastU, obKind, obVenueU, obPub, obPubTs, obNow,
                   obSnapTs, obSnapAt>>
    /\ UNCHANGED nonObVars

NextOB ==
    \/ ObVenueLose
    \/ ObConnectSnapshot
    \/ ObRecv
    \/ ObIntervalBreak
    \/ ObDisconnect

SpecOB == InitOB /\ [][NextOB]_vars

\* ======================================================================
\* Candidate engine and try_enter_unified (strategy/logic.py)
\* ======================================================================

\* config.py defaults.  V_USD in USD, the slippage limits in basis points.
V_USD == 1000
MAX_SLIPPAGE_BPS_SPOT == 5
MAX_SLIPPAGE_BPS_COINM == 5
\* ENTER_BPS = 2.0
ENTER_BPS == [num |-> 2, den |-> 1]
\* CoinMLeg._ensure_meta: "float(mt.contract_size or 100.0)", USD per contract.
ContractSize == 100

\* Exact fractions with a positive denominator.
RLeq(a, b) == a.num * b.den <= b.num * a.den
RLess(a, b) == a.num * b.den < b.num * a.den
RNeg(a) == [num |-> 0 - a.num, den |-> a.den]

\* _spread_bps(quote_px, hedge_px) = (quote_px - hedge_px) / hedge_px * 10000.0
_spread_bps(quote_px, hedge_px) ==
    [num |-> (quote_px - hedge_px) * 10000, den |-> hedge_px]

\* Leg.qty_from_usd: V_usd / C on COIN-M, V_usd / ref_price() elsewhere.
qty_from_usd(kind, V_usd, ref) ==
    IF kind = "coinm" THEN (V_usd * 1000) \div ContractSize
    ELSE (V_usd * 1000) \div ref

\* The quantity a leg's place_market / place_limit_maker sends: CoinMLeg
\* sends int(qty) contracts, the other legs format the float with 8 decimals.
LegQty(kind, qty) == IF kind = "coinm" THEN (qty \div 1000) * 1000 ELSE qty

Min2(a, b) == IF a <= b THEN a ELSE b

\* qty * px >= min_vus, qty in thousandths.
NotionalAtLeast(qty, px, min_vus) == qty * px >= min_vus * 1000

Row(side, level, px_q, px_h, q_qty, h_qty, edge) ==
    [side |-> side, level |-> level, px_quote |-> px_q, px_hedge |-> px_h,
     q_qty |-> q_qty, h_qty |-> h_qty, edge_bps |-> edge]

\* _get_candidate: level 1 only; the quantities are the level's quantities.
_get_candidate(q_bids, q_asks, h_bids, h_asks, min_bp, only_positive_carry) ==
    IF q_bids = << >> \/ q_asks = << >> \/ h_bids = << >> \/ h_asks = << >>
    THEN NoRows
    ELSE LET px_h_pos == h_asks[1][1]
             px_q_pos == q_asks[1][1]
             aa_spread == _spread_bps(px_q_pos, px_h_pos)
             h_cap_pos == h_asks[1][2]
             q_cap_pos == q_asks[1][2]
             px_h_neg == h_bids[1][1]
             px_q_neg == q_bids[1][1]
             bb_spread == _spread_bps(px_q_neg, px_h_neg)
             h_cap_neg == h_bids[1][2]
             q_cap_neg == q_bids[1][2]
         IN  [pos |-> IF RLeq(min_bp, aa_spread)
                      THEN << Row("POS", 1, px_q_pos, px_h_pos, q_cap_pos, h_cap_pos,
                                  aa_spread) >>
                      ELSE << >>,
              neg |-> IF ~only_positive_carry /\ RLeq(bb_spread, RNeg(min_bp))
                      THEN << Row("NEG", 1, px_q_neg, px_h_neg, q_cap_neg, h_cap_neg,
                                  bb_spread) >>
                      ELSE << >>]

\* _collect_unified_candidates, levels i..L (min_bp = ENTER_BPS, min_vus = V_USD).
RECURSIVE CollectFrom(_, _, _, _, _, _, _, _, _)
CollectFrom(i, L, q_bids, q_asks, h_bids, h_asks, q_target, h_target, only_pos) ==
    IF i > L THEN NoRows
    ELSE LET rest == CollectFrom(i + 1, L, q_bids, q_asks, h_bids, h_asks,
                                 q_target, h_target, only_pos)
             px_h_pos == h_asks[i][1]
             px_q_pos == q_bids[i][1]
             edge_pos == _spread_bps(px_q_pos, px_h_pos)
             h_qty_pos == Min2(h_target, h_asks[i][2])
             q_qty_pos == Min2(q_target, q_bids[i][2])
             px_h_neg == h_bids[i][1]
             px_q_neg == q_asks[i][1]
             edge_neg == _spread_bps(px_q_neg, px_h_neg)
             h_qty_neg == Min2(h_target, h_bids[i][2])
             q_qty_neg == Min2(q_target, q_asks[i][2])
         IN  [pos |-> (IF /\ RLeq(ENTER_BPS, edge_pos)
                          /\ NotionalAtLeast(h_qty_pos, px_h_pos, V_USD)
                          /\ NotionalAtLeast(q_qty_pos, px_q_pos, V_USD)
                       THEN << Row("POS", i, px_q_pos, px_h_pos, q_qty_pos, h_qty_pos,
                                   edge_pos) >>
                       ELSE << >>) \o rest.pos,
              neg |-> (IF /\ ~only_pos
                          /\ RLeq(edge_neg, RNeg(ENTER_BPS))
                          /\ NotionalAtLeast(h_qty_neg, px_h_neg, V_USD)
                          /\ NotionalAtLeast(q_qty_neg, px_q_neg, V_USD)
                       THEN << Row("NEG", i, px_q_neg, px_h_neg, q_qty_neg, h_qty_neg,
                                   edge_neg) >>
                       ELSE << >>) \o rest.neg]

_collect_unified_candidates(quote_kind, hedge_kind, q_ref, h_ref, q_bids, q_asks, h_bids, h_asks, only_positive_carry) ==
    LET lens == {10, Len(q_bids), Len(q_asks), Len(h_bids), Len(h_asks)}
        L == CHOOSE n \in lens : \A m \in lens : n <= m
    IN  CollectFrom(1, L, q_bids, q_asks, h_bids, h_asks,
                    qty_from_usd(quote_kind, V_USD, q_ref),
                    qty_from_usd(hedge_kind, V_USD, h_ref), only_positive_carry)

\* utils.vwap_to_qty: (filled, notional) after walking the levels.
RECURSIVE vwap_to_qty(_, _)
vwap_to_qty(levels, remain) ==
    IF levels = << >> \/ remain <= 0 THEN [filled |-> 0, notional |-> 0]
    ELSE LET take == Min2(remain, Head(levels)[2])
             r == vwap_to_qty(Tail(levels), remain - take)
         IN  [filled |-> take + r.filled, notional |-> take * Head(levels)[1] + r.notional]

\* "_slip_bps(levels, qty) > threshold"; _slip_bps is 1e9 without a fill.
SlipExceeds(levels, qty, thr_bps) ==
    IF qty <= 0 \/ levels = << >> THEN TRUE
    ELSE LET r == vwap_to_qty(levels, qty)
             best == levels[1][1]
             d == r.notional - best * r.filled
         IN  IF r.filled <= 0 THEN TRUE
             ELSE (IF d >= 0 THEN d ELSE 0 - d) * 10000 > thr_bps * best * r.filled

_slip_threshold(kind) ==
    IF kind = "coinm" THEN MAX_SLIPPAGE_BPS_COINM ELSE MAX_SLIPPAGE_BPS_SPOT

\* "cand = max(rows_pos, key=edge_bps)"; "neg_best = min(rows_neg, ...)" replaces
\* it when there is no POS row or its edge is smaller.
Better(a, b, want_max) == IF want_max THEN RLess(b, a) ELSE RLess(a, b)

BestOf(rows, want_max) ==
    rows[CHOOSE i \in 1..Len(rows) :
            \A j \in 1..Len(rows) :
                /\ ~Better(rows[j].edge_bps, rows[i].edge_bps, want_max)
                /\ j < i => Better(rows[i].edge_bps, rows[j].edge_bps, want_max)]

SelectCandidate(rows, only_pos) ==
    LET cand == IF rows.pos # << >> THEN BestOf(rows.pos, TRUE) ELSE NoCand
    IN  IF ~only_pos /\ rows.neg # << >>
        THEN LET neg_best == BestOf(rows.neg, FALSE)
             IN  IF cand = NoCand \/ RLess(neg_best.edge_bps, cand.edge_bps)
                 THEN neg_best ELSE cand
        ELSE cand

\* ------------------------------------------------------------- the inputs
\* Level-1 books as the Bus holds them (both sides non-empty, bid < ask).
QuotePricePairs == { <<20004, 20006>>, <<20002, 20004>>, <<19992, 19994>>,
                     <<19999, 20001>>, <<19990, 20010>> }
\* Quote quantities: 0.001, 0.06 and 7 units.
QuoteQtys == {1, 60, 7000}
QuoteBooks ==
    { [bids |-> << <<pp[1], q>> >>, asks |-> << <<pp[2], q>> >>] :
        pp \in QuotePricePairs, q \in QuoteQtys }
\* Hedge quantities: whole contracts on COIN-M, fractions of a coin on spot.
HedgeQtys(kind) == IF kind = "coinm" THEN {7000} ELSE {1, 60}
HedgeBooks(kind) ==
    { [bids |-> << <<19998, q>> >>, asks |-> << <<20000, q>> >>] : q \in HedgeQtys(kind) }
\* rest.get_last_minute_volume: None / raised (0), or USD traded in the minute.
Volumes == {0, 50000, 200000}
\* Mark prices ref_price() returns.
RefPrices == {20000}

InitCand ==
    /\ cCfg \in [quote : {"usdtm"}, hedge : {"coinm", "spot"}, only_pos : BOOLEAN,
                 mode : {"taker", "hybrid"}, dry : BOOLEAN]
    /\ cQuote \in QuoteBooks
    /\ cHedge \in HedgeBooks(cCfg.hedge)
    /\ cEnv \in [fresh : BOOLEAN, qvol : Volumes, hvol : Volumes,
                 qref : RefPrices, href : RefPrices]
    /\ cRowsG = NoRows /\ cRowsC = NoRows
    /\ cCand = NoCand
    /\ cOrders = << >>
    /\ cRet = "none"
    /\ IdleDM /\ IdleOB /\ IdleHyb /\ IdleExit /\ IdleRest

\* A call of _get_candidate on the current books.
GetCandidate ==
    /\ cRowsG' = _get_candidate(cQuote.bids, cQuote.asks, cHedge.bids, cHedge.asks,
                                ENTER_BPS, cCfg.only_pos)
    /\ UNCHANGED <<cQuote, cHedge, cCfg, cEnv, cRowsC, cCand, cOrders, cRet>>
    /\ UNCHANGED nonCandVars

\* A call of _collect_unified_candidates on the current books.
CollectCandidates ==
    /\ cRowsC' = _collect_unified_candidates(cCfg.quote, cCfg.hedge, cEnv.qref,
                                             cEnv.href, cQuote.bids, cQuote.asks,
                                             cHedge.bids, cHedge.asks, cCfg.only_pos)
    /\ UNCHANGED <<cQuote, cHedge, cCfg, cEnv, cRowsG, cCand, cOrders, cRet>>
    /\ UNCHANGED nonCandVars

\* The two market orders of taker mode sent reduce-only.
TakerOrders_ReduceOnly(side, h_qty, q_qty, fail) ==
    LET o_h == [leg |-> "hedge", side |-> IF side = "POS" THEN "BUY" ELSE "SELL",
                qty |-> LegQty(cCfg.hedge, h_qty), reduce_only |-> TRUE]
        o_q == [leg |-> "quote", side |-> IF side = "POS" THEN "SELL" ELSE "BUY",
                qty |-> LegQty(cCfg.quote, q_qty), reduce_only |-> TRUE]
    IN  CASE fail = 0 -> << o_h, o_q >>
          [] fail = 1 -> << >>
          [] OTHER    -> << o_h >>

\* The two market orders of taker mode; `fail` is the place_market that raises
\* (0: none).  An order that raised was not accepted by the venue.
TakerOrders(side, h_qty, q_qty, fail) ==
    LET o_h == [leg |-> "hedge", side |-> IF side = "POS" THEN "BUY" ELSE "SELL",
                qty |-> LegQty(cCfg.hedge, h_qty), reduce_only |-> FALSE]
        o_q == [leg |-> "quote", side |-> IF side = "POS" THEN "SELL" ELSE "BUY",
                qty |-> LegQty(cCfg.quote, q_qty), reduce_only |-> FALSE]
    IN  CASE fail = 0 -> << o_h, o_q >>
          [] fail = 1 -> << >>
          [] OTHER    -> << o_h >>

\* The liquidity test with the hedge leg's volume left out.
LiquidityOk_QuoteOnly(V_trade, qvol, hvol) == qvol # 0 /\ ~(V_trade * 100 > qvol)

\* Both last-minute volumes were obtained (0: None or the call raised) and
\* "V_trade > V_q_cap_1pct or V_trade > V_h_cap_1pct" is false.
LiquidityOk(V_trade, qvol, hvol) ==
    /\ qvol # 0 /\ hvol # 0
    /\ ~(V_trade * 100 > qvol \/ V_trade * 100 > hvol)

\* What try_enter_unified returns at each of its return statements.
EnterResult(site) ==
    CASE site = "data"         -> "skip"       \* market data not ready / stale
      [] site = "volume"       -> "skip"       \* volume missing or liquidity cap
      [] site = "no_candidate" -> "skip"
      [] site = "slippage"     -> "skip"
      [] site = "hybrid_false" -> "skip"       \* _hybrid_maker_then_taker returned False
      [] site = "entered"      -> "position"

\* try_enter_unified from its first line to the order placement: the gate
\* that ends the cycle ("go": none), the candidate rows and the candidate.
EnterPlan(quote, hedge, data_ok) ==
    LET rows == _get_candidate(quote.bids, quote.asks, hedge.bids, hedge.asks,
                               ENTER_BPS, cCfg.only_pos)
        cand == SelectCandidate(rows, cCfg.only_pos)
        slip == IF cand.side = "POS"
                THEN \/ SlipExceeds(hedge.asks, cand.h_qty, _slip_threshold(cCfg.hedge))
                     \/ SlipExceeds(quote.bids, cand.q_qty, _slip_threshold(cCfg.quote))
                ELSE \/ SlipExceeds(hedge.bids, cand.h_qty, _slip_threshold(cCfg.hedge))
                     \/ SlipExceeds(quote.asks, cand.q_qty, _slip_threshold(cCfg.quote))
    IN  [gate |-> IF ~data_ok THEN "data"
                  ELSE IF ~LiquidityOk(V_USD, cEnv.qvol, cEnv.hvol) THEN "volume"
                  ELSE IF cand = NoCand THEN "no_candidate"
                  ELSE IF slip THEN "slippage"
                  ELSE "go",
         rows |-> rows,
         cand |-> cand]

\* The part of a call that every mode shares: the gates, and cRowsG / cCand
\* once the volume gate is passed.
EnterGates(plan) ==
    IF plan.gate \in {"data", "volume"}
    THEN /\ cRet' = EnterResult(plan.gate)
         /\ UNCHANGED <<cRowsG, cCand, cOrders>>
    ELSE /\ cRowsG' = plan.rows
         /\ cCand' = plan.cand
         /\ plan.gate # "go" => (cRet' = EnterResult(plan.gate) /\ UNCHANGED cOrders)

\* The order placement of a call that passed every gate; in hybrid mode the
\* executor's result is an input.
EnterExecute(cand) ==
    IF cCfg.mode = "hybrid"
    THEN /\ \E ok \in (IF cCfg.dry THEN {TRUE} ELSE BOOLEAN) :
               cRet' = IF ok THEN EnterResult("entered")
                       ELSE EnterResult("hybrid_false")
         /\ UNCHANGED cOrders
    ELSE IF cCfg.dry
         THEN /\ cRet' = EnterResult("entered")
              /\ UNCHANGED cOrders
         ELSE \E fail \in 0..2 :
                /\ cOrders' = TakerOrders(cand.side, cand.h_qty, cand.q_qty, fail)
                /\ cRet' = IF fail = 0 THEN EnterResult("entered") ELSE "raise"

\* try_enter_unified, one call from its first line to its return (or raise).
try_enter_unified ==
    /\ cRet = "none"
    /\ LET plan == EnterPlan(cQuote, cHedge, cEnv.fresh)
       IN  /\ EnterGates(plan)
           /\ plan.gate = "go" => EnterExecute(plan.cand)
    /\ UNCHANGED <<cQuote, cHedge, cCfg, cEnv, cRowsC>>
    /\ UNCHANGED nonCandVars

\* The Position try_enter_unified returns with ok = True.
EnteredPosition ==
    IF cRet = "position"
    THEN [side |-> cCand.side,
          Q |-> IF cCfg.hedge # "coinm" THEN cCand.h_qty ELSE 0,
          N |-> IF cCfg.quote = "coinm" THEN cCand.q_qty \div 1000 ELSE 0]
    ELSE NoPosition

NextCand ==
    \/ GetCandidate
    \/ CollectCandidates
    \/ try_enter_unified

SpecCand == InitCand /\ [][NextCand]_vars

\* ======================================================================
\* _hybrid_maker_then_taker (strategy/logic.py) and the venue
\* ======================================================================

\* taker_qty * scale with the scale left out.
TakerUnscaled(taker_qty, filled, maker_qty) == taker_qty

\* "scale = filled / max(1e-12, maker_qty); taker_filled_qty = taker_qty * scale"
\* (maker_qty is at least one thousandth wherever the model calls this).
TakerScaled(taker_qty, filled, maker_qty) == (taker_qty * filled) \div maker_qty

\* "maker_side": BUY/SELL of the maker leg.
MakerSide(side, maker_is_hedge) ==
    IF maker_is_hedge THEN (IF side = "POS" THEN "BUY" ELSE "SELL")
    ELSE (IF side = "POS" THEN "SELL" ELSE "BUY")

\* "taker_side": BUY/SELL of the taker leg.
TakerSide(side, maker_is_hedge) ==
    IF ~maker_is_hedge THEN (IF side = "POS" THEN "SELL" ELSE "BUY")
    ELSE (IF side = "POS" THEN "BUY" ELSE "SELL")

\* The timeout path after the cancel, with the recovery hedge left out.
AfterTimeoutCancel_NoHedge(filled) == "done"

\* The timeout path after the cancel, hedging whatever was read.
AfterTimeoutCancel_AlwaysHedge(filled) == "t_hedge"

\* The timeout path after the cancel: "if filled_qty_timeout > 0" hedges.
AfterTimeoutCancel(filled) == IF filled > 0 THEN "t_hedge" ELSE "done"

Max2(a, b) == IF a >= b THEN a ELSE b

\* What _hybrid_maker_then_taker returns at each of its return statements.
HybResult(site) ==
    CASE site = "dry"            -> "true"     \* DRY_RUN
      [] site = "maker_rejected" -> "false"    \* place_limit_maker raised / no orderId
      [] site = "not_filled"     -> "false"    \* timeout, nothing executed
      [] site = "zero_fill"      -> "false"    \* notified, filled_qty <= 0
      [] site = "taker_failed"   -> "false"    \* place_market raised after a fill
      [] site = "hedged"         -> "true"

\* Quantities a call is made with: maker 10 units; taker 7 or 10 units.
MakerQtys == {10000}
TakerQtys == {7000, 10000}
\* Sizes of one fill of the maker order.
FillSizes == {4000, 6000}

InitHyb ==
    /\ hPc = "idle"
    /\ hCfg \in { [maker_is_hedge |-> FALSE, maker |-> "usdtm", taker |-> "coinm",
                   dry |-> d] : d \in BOOLEAN }
          \cup { [maker_is_hedge |-> TRUE, maker |-> "coinm", taker |-> "usdtm",
                   dry |-> FALSE] }
    /\ hArgs = NoArgs
    /\ hOid = 0
    /\ mkOrder = NoOrder
    /\ hUds = NoFill /\ hNotif = NoFill
    /\ hFilled = 0
    /\ hPath = "none"
    /\ hCancel = "none"
    /\ takerOrders = << >>
    /\ hRet = "none"
    /\ IdleDM /\ IdleOB /\ IdleCand /\ IdleExit /\ IdleRest

\* The call up to the await of register: DRY_RUN returns True at once;
\* otherwise the maker order is placed (a new order id) or the placing raises.
HybCallBody(side, maker_qty, taker_qty) ==
    /\ hPc = "idle"
    /\ hOid < MaxCalls
    /\ hArgs' = [side |-> side, maker_qty |-> maker_qty, taker_qty |-> taker_qty]
    /\ hUds' = NoFill /\ hNotif' = NoFill /\ hFilled' = 0
    /\ hPath' = "none" /\ hCancel' = "none"
    /\ IF hCfg.dry
       THEN /\ hRet' = HybResult("dry") /\ hPc' = "done"
            /\ UNCHANGED hOid
            /\ mkOrder' = NoOrder
       ELSE \E placed \in BOOLEAN :
              IF placed
              THEN /\ hOid' = hOid + 1
                   /\ mkOrder' = [state |-> "open",
                                  qty |-> LegQty(hCfg.maker, maker_qty),
                                  filled |-> 0,
                                  side |-> MakerSide(side, hCfg.maker_is_hedge)]
                   /\ hRet' = "none" /\ hPc' = "wait"
              ELSE /\ UNCHANGED hOid
                   /\ mkOrder' = NoOrder
                   /\ hRet' = HybResult("maker_rejected") /\ hPc' = "done"
    /\ UNCHANGED <<hCfg, takerOrders>>

HybCall ==
    /\ \E side \in {"POS", "NEG"}, mq \in MakerQtys, tq \in TakerQtys :
          HybCallBody(side, mq, tq)
    /\ UNCHANGED nonHybVars

\* The venue fills part of the resting maker order and emits a user-stream event.
VenueFill ==
    /\ mkOrder.state = "open"
    /\ \E k \in FillSizes :
          /\ mkOrder.filled + k <= mkOrder.qty
          /\ mkOrder' = [mkOrder EXCEPT
                            !.filled = @ + k,
                            !.state = IF mkOrder.filled + k = mkOrder.qty
                                      THEN "filled" ELSE @]
          /\ hUds' = [lastQty |-> k, cumQty |-> mkOrder.filled + k]
    /\ UNCHANGED <<hPc, hCfg, hArgs, hOid, hNotif, hFilled, hPath, hCancel, takerOrders, hRet>>
    /\ UNCHANGED nonHybVars

\* Runner._listen_for_fills -> PendingManager.on_fill -> set_filled, while the
\* executor awaits the registered order.
UdsDeliver ==
    /\ hUds # NoFill
    /\ hPc = "wait"
    /\ hNotif' = hUds
    /\ hUds' = NoFill
    /\ UNCHANGED <<hPc, hCfg, hArgs, hOid, mkOrder, hFilled, hPath, hCancel, takerOrders, hRet>>
    /\ UNCHANGED nonHybVars

\* The event is lost, or on_fill finds no registered order.
UdsLose ==
    /\ hUds # NoFill
    /\ hUds' = NoFill
    /\ UNCHANGED <<hPc, hCfg, hArgs, hOid, mkOrder, hNotif, hFilled, hPath, hCancel,
                   takerOrders, hRet>>
    /\ UNCHANGED nonHybVars

\* register returns fill_data: the notification path.
HybNotified ==
    /\ hPc = "wait"
    /\ hNotif # NoFill
    /\ hPath' = "notify"
    /\ hPc' = "n_cancel"
    /\ UNCHANGED <<hCfg, hArgs, hOid, mkOrder, hUds, hNotif, hFilled, hCancel, takerOrders, hRet>>
    /\ UNCHANGED nonHybVars

\* wait_for_fill times out (HYBRID_WAIT_SEC), register returns None, and
\* get_order_status is read: executedQty, or 0.0 when it raises.
HybTimeoutStatus ==
    /\ hPc = "wait"
    /\ hNotif = NoFill
    /\ hPath' = "timeout"
    /\ \E ok \in BOOLEAN : hFilled' = IF ok THEN mkOrder.filled ELSE 0
    /\ hPc' = "t_cancel"
    /\ UNCHANGED <<hCfg, hArgs, hOid, mkOrder, hUds, hNotif, hCancel, takerOrders, hRet>>
    /\ UNCHANGED nonHybVars

\* maker_leg.cancel(maker_oid): an open order is cancelled unless the request
\* fails; on a filled order the venue rejects the cancel.  The exception is
\* logged (timeout path) or swallowed (notification path).
CancelMaker ==
    \E ok \in BOOLEAN :
        IF ok /\ mkOrder.state = "open"
        THEN /\ mkOrder' = [mkOrder EXCEPT !.state = "canceled"]
             /\ hCancel' = "ok"
        ELSE /\ UNCHANGED mkOrder
             /\ hCancel' = "raised"

HybTimeoutCancel ==
    /\ hPc = "t_cancel"
    /\ CancelMaker
    /\ hPc' = AfterTimeoutCancel(hFilled)
    /\ hRet' = IF AfterTimeoutCancel(hFilled) = "done" THEN HybResult("not_filled") ELSE hRet
    /\ UNCHANGED <<hCfg, hArgs, hOid, hUds, hNotif, hFilled, hPath, takerOrders>>
    /\ UNCHANGED nonHybVars

\* taker_leg.place_market(taker_side, taker_filled_qty, reduce_only=False):
\* True when it returns (the venue accepted the order), False when it raises.
PlaceTaker ==
    /\ \E ok \in BOOLEAN :
          /\ takerOrders' = Append(takerOrders,
                [oid |-> hOid,
                 side |-> TakerSide(hArgs.side, hCfg.maker_is_hedge),
                 qty |-> LegQty(hCfg.taker,
                                TakerScaled(hArgs.taker_qty, hFilled, hArgs.maker_qty)),
                 reduce_only |-> FALSE,
                 accepted |-> ok])
          /\ hRet' = IF ok THEN HybResult("hedged") ELSE HybResult("taker_failed")
    /\ hPc' = "done"

HybTimeoutHedge ==
    /\ hPc = "t_hedge"
    /\ PlaceTaker
    /\ UNCHANGED <<hCfg, hArgs, hOid, mkOrder, hUds, hNotif, hFilled, hPath, hCancel>>
    /\ UNCHANGED nonHybVars

\* The notification path after the cancel, giving up when the cancel raised.
AfterNotifyCancel_AbortOnFailure(cancel) == IF cancel = "raised" THEN "done" ELSE "n_status"

\* The notification path after the cancel: "except Exception: pass", then the
\* filled quantity is computed whatever the cancel did.
AfterNotifyCancel(cancel) == "n_status"

HybNotifyCancel ==
    /\ hPc = "n_cancel"
    /\ CancelMaker
    /\ hPc' = AfterNotifyCancel(hCancel')
    /\ UNCHANGED <<hCfg, hArgs, hOid, hUds, hNotif, hFilled, hPath, takerOrders, hRet>>
    /\ UNCHANGED nonHybVars

\* filled_qty = max(lastQty, cumQty), raised to executedQty when the status
\* query returns; "if filled_qty <= 0: return False".
HybNotifyStatus ==
    /\ hPc = "n_status"
    /\ \E ok \in BOOLEAN :
          hFilled' = IF ok THEN Max2(Max2(hNotif.lastQty, hNotif.cumQty), mkOrder.filled)
                     ELSE Max2(hNotif.lastQty, hNotif.cumQty)
    /\ IF hFilled' <= 0
       THEN hPc' = "done" /\ hRet' = HybResult("zero_fill")
       ELSE hPc' = "n_hedge" /\ UNCHANGED hRet
    /\ UNCHANGED <<hCfg, hArgs, hOid, mkOrder, hUds, hNotif, hPath, hCancel, takerOrders>>
    /\ UNCHANGED nonHybVars

HybNotifyHedge ==
    /\ hPc = "n_hedge"
    /\ PlaceTaker
    /\ UNCHANGED <<hCfg, hArgs, hOid, mkOrder, hUds, hNotif, hFilled, hPath, hCancel>>
    /\ UNCHANGED nonHybVars

\* The coroutine has returned; the next trading cycle may call it again.
HybReturn ==
    /\ hPc = "done"
    /\ hOid < MaxCalls
    /\ hPc' = "idle"
    /\ hRet' = "none"
    /\ UNCHANGED <<hCfg, hArgs, hOid, mkOrder, hUds, hNotif, hFilled, hPath, hCancel,
                   takerOrders>>
    /\ UNCHANGED nonHybVars

NextHyb ==
    \/ HybCall
    \/ VenueFill
    \/ UdsDeliver
    \/ UdsLose
    \/ HybNotified
    \/ HybTimeoutStatus
    \/ HybTimeoutCancel
    \/ HybTimeoutHedge
    \/ HybNotifyCancel
    \/ HybNotifyStatus
    \/ HybNotifyHedge
    \/ HybReturn

SpecHyb == InitHyb /\ [][NextHyb]_vars

\* ======================================================================
\* try_exit_unified (strategy/logic.py) and the Runner's exit branch
\* ======================================================================

RInt(n) == [num |-> n, den |-> 1]

\* The rules with the hold-time rule evaluated first.
ExitReason_HoldFirst(side, sp_bps, held_sec, cfg) ==
    IF held_sec >= cfg.max_hold THEN "hold"
    ELSE IF side = "POS"
         THEN IF RLeq(sp_bps, cfg.exit) THEN "profit"
              ELSE IF RLeq(cfg.stop, sp_bps) THEN "stop" ELSE ""
         ELSE IF RLeq(RNeg(cfg.exit), sp_bps) THEN "profit"
              ELSE IF RLeq(sp_bps, RNeg(cfg.stop)) THEN "stop" ELSE ""

\* The POS profit-take test read the other way round: sp_bps >= EXIT_BPS.
ExitReason_PosProfitAbove(side, sp_bps, held_sec, cfg) ==
    LET r == IF side = "POS"
             THEN IF RLeq(cfg.exit, sp_bps) /\ RLess(sp_bps, cfg.stop) THEN "profit"
                  ELSE IF RLeq(cfg.stop, sp_bps) THEN "stop" ELSE ""
             ELSE IF RLeq(RNeg(cfg.exit), sp_bps) THEN "profit"
                  ELSE IF RLeq(sp_bps, RNeg(cfg.stop)) THEN "stop" ELSE ""
    IN  IF r = "" /\ held_sec >= cfg.max_hold THEN "hold" ELSE r

\* "reason" of try_exit_unified as a kind: "profit" (spread .. EXIT), "stop"
\* (STOP ..), "hold" (HOLD ..) or "" (no rule matched).
ExitReason(side, sp_bps, held_sec, cfg) ==
    LET r == IF side = "POS"
             THEN IF RLeq(sp_bps, cfg.exit) THEN "profit"
                  ELSE IF RLeq(cfg.stop, sp_bps) THEN "stop" ELSE ""
             ELSE IF RLeq(RNeg(cfg.exit), sp_bps) THEN "profit"
                  ELSE IF RLeq(sp_bps, RNeg(cfg.stop)) THEN "stop" ELSE ""
    IN  IF r = "" /\ held_sec >= cfg.max_hold THEN "hold" ELSE r

\* Leg.is_perp(): False on SpotLeg, True on CoinMLeg and UMLeg.
is_perp(kind) == kind # "spot"

\* The quantities of the two closing orders.
ExitHedgeQty(pos, cfg, refs) ==
    IF cfg.hedge = "coinm" THEN pos.N * 1000
    ELSE IF pos.Q > 0 THEN pos.Q ELSE qty_from_usd(cfg.hedge, V_USD, refs.h)

ExitQuoteQty(pos, cfg, refs) ==
    IF cfg.quote = "coinm" THEN pos.N * 1000
    ELSE qty_from_usd(cfg.quote, V_USD, refs.q)

\* The closing orders; `fail` is the place_market that raises (0: none).
ExitOrders(pos, cfg, refs, fail) ==
    LET o_h == [leg |-> "hedge", side |-> IF pos.side = "POS" THEN "SELL" ELSE "BUY",
                qty |-> LegQty(cfg.hedge, ExitHedgeQty(pos, cfg, refs)),
                reduce_only |-> is_perp(cfg.hedge)]
        o_q == [leg |-> "quote", side |-> IF pos.side = "POS" THEN "BUY" ELSE "SELL",
                qty |-> LegQty(cfg.quote, ExitQuoteQty(pos, cfg, refs)),
                reduce_only |-> is_perp(cfg.quote)]
    IN  CASE fail = 0 -> << o_h, o_q >>
          [] fail = 1 -> << >>
          [] OTHER    -> << o_h >>

\* ------------------------------------------------------------- the inputs
\* (EXIT_BPS, STOP_BPS, MAX_HOLD_SEC): config.py's defaults 0.5, 100.0, 1800,
\* and 2.0, 100.0, 1800.
ExitThresholds ==
    { [exit |-> [num |-> 1, den |-> 2], stop |-> RInt(100), max_hold |-> 1800],
      [exit |-> RInt(2), stop |-> RInt(100), max_hold |-> 1800] }
ExitKinds == { [quote |-> "usdtm", hedge |-> "coinm"], [quote |-> "usdtm", hedge |-> "spot"] }
\* The hedge leg's mark price, and the quote leg's as an offset from it
\* (one USD at 20000 is half a basis point).
HedgeRef == {20000}
QuoteOffsets == {-200, -5, -4, -3, -1, 0, 1, 3, 4, 5, 200}
\* Seconds since position.t0 at which the Runner's loop polls.
HeldTimes == {0, 10, 1800}
NotCalled == [called |-> FALSE, triggered |-> FALSE, reason |-> "", raised |-> FALSE]

InitExit ==
    /\ xPos = NoPosition
    /\ xRefs = [q |-> 0, h |-> 0]
    /\ xHeld = 0
    /\ \E t \in ExitThresholds, k \in ExitKinds, d \in BOOLEAN :
          xCfg = [exit |-> t.exit, stop |-> t.stop, max_hold |-> t.max_hold,
                  quote |-> k.quote, hedge |-> k.hedge, dry |-> d]
    /\ xOrders = << >>
    /\ xRet = NotCalled
    /\ IdleDM /\ IdleOB /\ IdleCand /\ IdleHyb /\ IdleRest

\* Runner.loop with pos None and try_enter_unified returning (True, pos):
\* Q is recorded for a hedge leg that is not COIN-M, N for a COIN-M quote leg.
ExitOpen ==
    /\ xPos = NoPosition
    /\ \E side \in {"POS", "NEG"},
          Q \in (IF xCfg.hedge # "coinm" THEN {1, 60} ELSE {0}),
          N \in (IF xCfg.quote = "coinm" THEN {7} ELSE {0}) :
          xPos' = [side |-> side, Q |-> Q, N |-> N]
    /\ \E h \in HedgeRef, k \in QuoteOffsets : xRefs' = [q |-> h + k, h |-> h]
    /\ xHeld' = 0
    /\ xOrders' = << >>
    /\ xRet' = NotCalled
    /\ UNCHANGED xCfg
    /\ UNCHANGED nonExitVars

\* The mark prices move between two polls.
ExitRefsMove ==
    /\ xPos # NoPosition
    /\ \E k \in QuoteOffsets : xRefs' = [xRefs EXCEPT !.q = xRefs.h + k]
    /\ xRefs' # xRefs
    /\ xOrders' = << >>
    /\ xRet' = NotCalled
    /\ UNCHANGED <<xPos, xHeld, xCfg>>
    /\ UNCHANGED nonExitVars

\* Time passes between two polls.
ExitClock ==
    /\ xPos # NoPosition
    /\ \E t \in HeldTimes : t > xHeld /\ xHeld' = t
    /\ xOrders' = << >>
    /\ xRet' = NotCalled
    /\ UNCHANGED <<xPos, xRefs, xCfg>>
    /\ UNCHANGED nonExitVars

\* The place_market outcomes the venue allows (`fail`: the call that raises,
\* 0 for none): a reduce-only order on a leg that an accepted order in
\* `prev` has already closed is rejected.
ExitFailChoices(prev) ==
    IF is_perp(xCfg.hedge) /\ \E i \in 1..Len(prev) : prev[i].leg = "hedge"
    THEN {1}
    ELSE 0..2

\* try_exit_unified(position), one call from its first line to its return or
\* raise: ref_price() raises on stale data; a place_market may raise.  The
\* orders the venue accepted are appended to `prev`.
ExitCall(prev) ==
    /\ xPos # NoPosition
    /\ ~xRet.called
    /\ \E fresh \in BOOLEAN :
          IF ~fresh
          THEN /\ xRet' = [called |-> TRUE, triggered |-> FALSE, reason |-> "",
                           raised |-> TRUE]
               /\ xOrders' = prev
          ELSE LET sp_bps == _spread_bps(xRefs.q, xRefs.h)
                   reason == ExitReason(xPos.side, sp_bps, xHeld, xCfg)
               IN  IF reason = ""
                   THEN /\ xRet' = [called |-> TRUE, triggered |-> FALSE, reason |-> "",
                                    raised |-> FALSE]
                        /\ xOrders' = prev
                   ELSE IF xCfg.dry
                        THEN /\ xRet' = [called |-> TRUE, triggered |-> TRUE,
                                         reason |-> reason, raised |-> FALSE]
                             /\ xOrders' = prev
                        ELSE \E fail \in ExitFailChoices(prev) :
                               /\ xOrders' = prev \o ExitOrders(xPos, xCfg, xRefs, fail)
                               /\ xRet' = [called |-> TRUE, triggered |-> fail = 0,
                                           reason |-> reason, raised |-> fail # 0]
    /\ UNCHANGED <<xPos, xRefs, xHeld, xCfg>>
    /\ UNCHANGED nonExitVars

\* One call with no earlier order of the Position on record.
try_exit_unified == ExitCall(<< >>)

\* Runner.loop after "trig, reason = try_exit_unified(self.pos)" with trig
\* true: self.pos = None.
RunnerClose ==
    /\ xRet.called /\ xRet.triggered
    /\ xPos' = NoPosition
    /\ xOrders' = << >>
    /\ xRet' = NotCalled
    /\ UNCHANGED <<xRefs, xHeld, xCfg>>
    /\ UNCHANGED nonExitVars

NextExit ==
    \/ ExitOpen
    \/ ExitRefsMove
    \/ ExitClock
    \/ try_exit_unified
    \/ RunnerClose

SpecExit == InitExit /\ [][NextExit]_vars

\* ======================================================================
\* Bus (data/bus.py), its publishers and the readers in exchanges/legs.py
\* ======================================================================

\* Bus.publish calls in a run.
MaxPub == 3
\* Bus(max_queue): the model runs the Bus with short subscriber queues.
MaxQueue == 2

\* subscribe(topic, key=None): the wildcard subscription.
NoKey == "*"

\* The key run_orderbook_ws (sym_u) and run_mark_ws (mp.symbol) publish under
\* for the leg (kind, symbol).
PublishKey(kind, symbol) == symbol

\* _get_ob(symbol) and _get_mark(symbol): what a leg of the given symbol reads.
_get_ob(symbol) == bLatest[<<"orderbook", symbol>>]
_get_mark(symbol) == bLatest[<<"mark", symbol>>]

\* _put with the new item dropped when the queue is full.
_put_DropNewest(q, item) == IF Len(q) >= MaxQueue THEN q ELSE Append(q, item)

\* _put: put_nowait; on QueueFull the oldest item is taken out and the new
\* one put.
_put(q, item) == IF Len(q) >= MaxQueue THEN Append(Tail(q), item) ELSE Append(q, item)

\* The item _put discards, as a set (empty when the queue has room).
Discarded(q) == IF Len(q) >= MaxQueue THEN {Head(q)} ELSE {}

\* Every exact subscriber of the topic, whatever its key.
ExactSubsOf_AnyKey(topic, key) ==
    { s \in Subscribers : bSubs[s].mode = "exact" /\ bSubs[s].topic = topic }

\* self._sub_exact.get((topic, key), [])
ExactSubsOf(topic, key) ==
    { s \in Subscribers : /\ bSubs[s].mode = "exact"
                          /\ bSubs[s].topic = topic
                          /\ bSubs[s].key = key }

\* self._sub_wild.get(topic, [])
WildSubsOf(topic) ==
    { s \in Subscribers : bSubs[s].mode = "wild" /\ bSubs[s].topic = topic }

InitBus ==
    /\ IdleBus
    /\ IdlePM
    /\ IdleCore

\* run_orderbook_ws / run_mark_ws of the leg (kind, symbol) publish a new
\* value: Bus.publish with the loop running creates a publish_async task.
BusPublish ==
    /\ bPubN < MaxPub
    /\ \E r \in Regs, topic \in Topics :
          bTasks' = Append(bTasks,
                           [topic |-> topic,
                            key |-> PublishKey(r[1], r[2]),
                            value |-> [id |-> bPubN + 1, kind |-> r[1]]])
    /\ bPubN' = bPubN + 1
    /\ UNCHANGED <<bLatest, bSubs, bLog>>
    /\ UNCHANGED nonBusVars

\* publish_async, run by the event loop for the oldest task: no await in it
\* suspends (the lock is free, _put uses put_nowait), so it runs in one piece.
publish_async ==
    /\ bTasks # << >>
    /\ LET t == Head(bTasks)
           ex == ExactSubsOf(t.topic, t.key)
           wd == WildSubsOf(t.topic)
       IN  /\ bLatest' = [bLatest EXCEPT ![<<t.topic, t.key>>] = t.value]
           /\ bSubs' = [s \in Subscribers |->
                 IF s \in ex
                 THEN [bSubs[s] EXCEPT !.q = _put(@, t.value),
                                       !.dropped = @ \cup Discarded(bSubs[s].q)]
                 ELSE IF s \in wd
                 THEN [bSubs[s] EXCEPT !.q = _put(@, <<t.key, t.value>>),
                                       !.dropped = @ \cup Discarded(bSubs[s].q)]
                 ELSE bSubs[s]]
           /\ bLog' = Append(bLog, t)
    /\ bTasks' = Tail(bTasks)
    /\ UNCHANGED bPubN
    /\ UNCHANGED nonBusVars

\* The first __anext__ of subscribe(topic, key): the queue is registered and,
\* for an exact key, latest(topic, key) is put into it when it is not None.
subscribe ==
    /\ \E s \in Subscribers, topic \in Topics, key \in Symbols \cup {NoKey} :
          /\ bSubs[s].mode = "none"
          /\ bSubs' = [bSubs EXCEPT ![s] =
                IF key = NoKey
                THEN [NoSub EXCEPT !.mode = "wild", !.topic = topic, !.key = NoKey,
                                   !.regIdx = Len(bLog)]
                ELSE LET latest == bLatest[<<topic, key>>]
                     IN  [NoSub EXCEPT !.mode = "exact", !.topic = topic, !.key = key,
                                       !.regIdx = Len(bLog),
                                       !.first = latest,
                                       !.q = IF latest # NoValue
                                             THEN _put(<< >>, latest) ELSE << >>]]
    /\ UNCHANGED <<bLatest, bTasks, bPubN, bLog>>
    /\ UNCHANGED nonBusVars

\* "item = await q.get(); yield item" with an item in the queue.
SubscriberGet ==
    /\ \E s \in Subscribers :
          /\ bSubs[s].q # << >>
          /\ bSubs' = [bSubs EXCEPT ![s].q = Tail(@),
                                    ![s].got = Append(@, Head(bSubs[s].q))]
    /\ UNCHANGED <<bLatest, bTasks, bPubN, bLog>>
    /\ UNCHANGED nonBusVars

NextBus ==
    \/ BusPublish
    \/ publish_async
    \/ subscribe
    \/ SubscriberGet

SpecBus == InitBus /\ [][NextBus]_vars

\* ======================================================================
\* PendingManager (strategy/pending.py)
\* ======================================================================

\* Order ids the venues hand out (each venue numbers its own orders), the
\* user-stream market names, and the one symbol string spot and USD-M share.
OrderIds == {1, 2}
UdsMarkets == {"spot", "um"}
PmSymbol == "BTCUSDT"
FillStatuses == {"NEW", "PARTIALLY_FILLED", "FILLED"}
\* fill_data.get("orderId") of an event that carries none.
NoOrderId == 0
\* The market an event arrives with: the bus key, or none.
EventMarkets == UdsMarkets \cup {""}

\* _make_key: (market, symbol, order_id), (symbol, order_id) or order_id.
_make_key(order_id, symbol, market) ==
    IF market # "" /\ symbol # ""
    THEN [mk |-> market, sym |-> symbol, oid |-> order_id]
    ELSE IF symbol # ""
    THEN [mk |-> "", sym |-> symbol, oid |-> order_id]
    ELSE [mk |-> "", sym |-> "", oid |-> order_id]

\* self._orders.get(key): the owner of the entry under key, as a set.
OrdersGet(key) == { en.owner : en \in { x \in pmOrders : x.key = key } }

\* The lookup with the market and the symbol left out of the comparison.
OnFillLookup_AnyMarket(order_id, symbol, market) ==
    { en.owner : en \in { x \in pmOrders : x.key.oid = order_id } }

\* "order = get(key) or get(key_sym_only) or get(order_id)"
OnFillLookup(order_id, symbol, market) ==
    IF OrdersGet(_make_key(order_id, symbol, market)) # {}
    THEN OrdersGet(_make_key(order_id, symbol, market))
    ELSE IF OrdersGet(_make_key(order_id, symbol, "")) # {}
    THEN OrdersGet(_make_key(order_id, symbol, ""))
    ELSE OrdersGet(_make_key(order_id, "", ""))

\* remove(order_id): every entry whose order has this order_id is deleted.
remove(order_id) == { en \in pmOrders : pmObj[en.owner].order_id # order_id }

InitPM ==
    /\ IdlePM
    /\ IdleBus
    /\ IdleCore

\* register up to the await of wait_for_fill: a key already in the registry
\* returns None at once; otherwise the order is created and stored.
PmRegister ==
    /\ \E c \in Callers, oid \in OrderIds, mk \in UdsMarkets :
          LET key == _make_key(oid, PmSymbol, mk)
          IN  /\ pmCall[c].pc = "idle"
              /\ IF OrdersGet(key) # {}
                 THEN /\ pmCall' = [pmCall EXCEPT ![c] =
                             [pc |-> "returned", order_id |-> oid, symbol |-> PmSymbol,
                              market |-> mk, ret |-> NoFillData]]
                      /\ UNCHANGED <<pmOrders, pmObj>>
                 ELSE /\ pmCall' = [pmCall EXCEPT ![c] =
                             [pc |-> "waiting", order_id |-> oid, symbol |-> PmSymbol,
                              market |-> mk, ret |-> NotReturned]]
                      /\ pmObj' = [pmObj EXCEPT ![c] =
                             [order_id |-> oid, is_set |-> FALSE, fill_data |-> NoFillData]]
                      /\ pmOrders' = pmOrders \cup {[key |-> key, owner |-> c]}
    /\ UNCHANGED nonPmVars

\* on_fill(fill_data, market): the order found under the full key, the
\* symbol-only key or the bare order id is resolved when the status is
\* PARTIALLY_FILLED or FILLED.  An event without orderId is ignored.
on_fill ==
    /\ \E oid \in OrderIds \cup {NoOrderId}, mk \in EventMarkets, st \in FillStatuses :
          LET found == OnFillLookup(oid, PmSymbol, mk)
          IN  IF oid # NoOrderId /\ found # {} /\ st \in {"PARTIALLY_FILLED", "FILLED"}
              THEN pmObj' = [c \in Callers |->
                                IF c \in found
                                THEN [pmObj[c] EXCEPT
                                         !.is_set = TRUE,
                                         !.fill_data = [orderId |-> oid, market |-> mk,
                                                        status |-> st]]
                                ELSE pmObj[c]]
              ELSE UNCHANGED pmObj
    /\ UNCHANGED <<pmOrders, pmCall>>
    /\ UNCHANGED nonPmVars

\* wait_for_fill returns fill_data; remove(order_id) runs and register
\* returns, without a suspension in between.
PmResolved ==
    /\ \E c \in Callers :
          /\ pmCall[c].pc = "waiting"
          /\ pmObj[c].is_set
          /\ pmOrders' = remove(pmCall[c].order_id)
          /\ pmCall' = [pmCall EXCEPT ![c].pc = "returned",
                                      ![c].ret = pmObj[c].fill_data]
    /\ UNCHANGED pmObj
    /\ UNCHANGED nonPmVars

\* wait_for raises TimeoutError (also when the timer fired just before the
\* event was set): wait_for_fill returns None, remove runs, register returns.
PmTimeout ==
    /\ \E c \in Callers :
          /\ pmCall[c].pc = "waiting"
          /\ pmOrders' = remove(pmCall[c].order_id)
          /\ pmCall' = [pmCall EXCEPT ![c].pc = "returned", ![c].ret = NoFillData]
    /\ UNCHANGED pmObj
    /\ UNCHANGED nonPmVars

\* The caller goes on and may register another order later.
PmNextCall ==
    /\ \E c \in Callers :
          /\ pmCall[c].pc = "returned"
          /\ pmCall' = [pmCall EXCEPT ![c] = NoCall]
    /\ UNCHANGED <<pmOrders, pmObj>>
    /\ UNCHANGED nonPmVars

NextPM ==
    \/ PmRegister
    \/ on_fill
    \/ PmResolved
    \/ PmTimeout
    \/ PmNextCall

SpecPM == InitPM /\ [][NextPM]_vars

\* ======================================================================
\* try_enter_unified together with the executor it awaits (strategy/logic.py)
\* ======================================================================

\* HYBRID_MAKER_LEG == "quote" (maker_first), read back from the executor's
\* configuration: the maker leg is the quote leg when it is not the hedge leg.
maker_first == ~hCfg.maker_is_hedge

\* The arguments of the awaited call: "q_qty if maker_first else h_qty" and
\* "h_qty if maker_first else q_qty".
HybridMakerQty(cand) == IF maker_first THEN cand.q_qty ELSE cand.h_qty
HybridTakerQty(cand) == IF maker_first THEN cand.h_qty ELSE cand.q_qty

\* One entry cycle: the configuration, the books the legs return, the
\* volumes; the executor is idle and configured for the same two legs.
InitEnter ==
    /\ cCfg \in [quote : {"usdtm"}, hedge : {"coinm", "spot"}, only_pos : BOOLEAN,
                 mode : {"taker", "hybrid"}, dry : BOOLEAN]
    /\ cQuote \in QuoteBooks
    /\ cHedge \in HedgeBooks(cCfg.hedge)
    /\ cEnv \in [fresh : BOOLEAN, qvol : Volumes, hvol : Volumes,
                 qref : RefPrices, href : RefPrices]
    /\ cRowsG = NoRows /\ cRowsC = NoRows
    /\ cCand = NoCand
    /\ cOrders = << >>
    /\ cRet = "none"
    /\ hPc = "idle"
    /\ \E mf \in BOOLEAN :
          hCfg = IF cCfg.mode = "hybrid" /\ ~mf
                 THEN [maker_is_hedge |-> TRUE, maker |-> cCfg.hedge,
                       taker |-> cCfg.quote, dry |-> cCfg.dry]
                 ELSE [maker_is_hedge |-> FALSE, maker |-> cCfg.quote,
                       taker |-> cCfg.hedge, dry |-> cCfg.dry]
    /\ hArgs = NoArgs
    /\ hOid = 0
    /\ mkOrder = NoOrder
    /\ hUds = NoFill /\ hNotif = NoFill
    /\ hFilled = 0
    /\ hPath = "none"
    /\ hCancel = "none"
    /\ takerOrders = << >>
    /\ hRet = "none"
    /\ IdleDM /\ IdleOB /\ IdleExit /\ IdleRest

\* try_enter_unified in taker mode: the whole call.
EnterTaker ==
    /\ cCfg.mode = "taker"
    /\ try_enter_unified

\* try_enter_unified in hybrid mode up to the await inside
\* _hybrid_maker_then_taker (or to its return when a gate ends the cycle, in
\* DRY_RUN, or when the maker order is rejected).
EnterHybridCall ==
    /\ cCfg.mode = "hybrid"
    /\ cRet = "none"
    /\ LET plan == EnterPlan(cQuote, cHedge, cEnv.fresh)
       IN  /\ EnterGates(plan)
           /\ IF plan.gate = "go"
              THEN /\ HybCallBody(plan.cand.side, HybridMakerQty(plan.cand),
                                  HybridTakerQty(plan.cand))
                   /\ cRet' = "awaiting"
                   /\ UNCHANGED cOrders
              ELSE UNCHANGED hybVars
    /\ UNCHANGED <<cQuote, cHedge, cCfg, cEnv, cRowsC>>
    /\ UNCHANGED <<dmVars, obVars, exitVars, restVars>>

\* _hybrid_maker_then_taker has returned: "if not ok: return (False, None)",
\* otherwise the Position is built and returned.
EnterHybridReturn ==
    /\ cRet = "awaiting"
    /\ hPc = "done"
    /\ cRet' = IF hRet = "true" THEN EnterResult("entered")
               ELSE EnterResult("hybrid_false")
    /\ UNCHANGED <<cQuote, cHedge, cCfg, cEnv, cRowsG, cRowsC, cCand, cOrders>>
    /\ UNCHANGED nonCandVars

NextEnter ==
    \/ EnterTaker
    \/ EnterHybridCall
    \/ VenueFill
    \/ UdsDeliver
    \/ UdsLose
    \/ HybNotified
    \/ HybTimeoutStatus
    \/ HybTimeoutCancel
    \/ HybTimeoutHedge
    \/ HybNotifyCancel
    \/ HybNotifyStatus
    \/ HybNotifyHedge
    \/ EnterHybridReturn

SpecEnter == InitEnter /\ [][NextEnter]_vars

\* ======================================================================
\* The strategy loop reading the replica's published book (app/main.py,
\* exchanges/legs.py, strategy/logic.py)
\* ======================================================================

\* Ticks of the clock in a run.
MaxNow == 2
\* The age limit _require_orderbook compares with, in ticks.
ORDERBOOK_MAX_AGE_SEC == 1

\* The freshness test that accepts every timestamp.
_is_fresh_Always(ts, max_age_sec) == TRUE

\* _is_fresh(ts, max_age_sec): (time.time() - ts) <= max_age_sec
_is_fresh(ts, max_age_sec) == (obNow - ts) <= max_age_sec

\* _require_orderbook returns (TRUE) or raises (FALSE): the book is on the
\* Bus, fresh, and has both sides.
_require_orderbook(ob, ts) ==
    /\ ob # NoOb
    /\ _is_fresh(ts, ORDERBOOK_MAX_AGE_SEC)
    /\ DOMAIN ob.bids # {} /\ DOMAIN ob.asks # {}

\* The highest / lowest price of a published side.
TopBid(side) == CHOOSE p \in DOMAIN side : \A x \in DOMAIN side : x <= p
TopAsk(side) == CHOOSE p \in DOMAIN side : \A x \in DOMAIN side : p <= x

\* get_books(limit=1) on the published book: ob.bids[:1], ob.asks[:1], with
\* the quantity in thousandths; nothing when _require_orderbook raises.
get_books(ob, ts) ==
    IF _require_orderbook(ob, ts)
    THEN [bids |-> << <<TopBid(ob.bids), ob.bids[TopBid(ob.bids)] * 1000>> >>,
          asks |-> << <<TopAsk(ob.asks), ob.asks[TopAsk(ob.asks)] * 1000>> >>]
    ELSE [bids |-> << >>, asks |-> << >>]

\* The hedge leg's level-1 book during the run.
FeedHedgeBooks == { [bids |-> << <<1, 1000>> >>, asks |-> << <<1, 1000>> >>] }

\* The replica is the quote leg's; the hedge leg's data, the marks and the
\* volumes are given; taker mode with real orders.
InitFeed ==
    /\ obBids = EmptyBook /\ obAsks = EmptyBook
    /\ obLastU = 0
    /\ obPc = "connect"
    /\ obKind \in {"spot", "coinm"}
    /\ obVenueU = 0
    /\ obPub = NoOb
    /\ obPubTs = 0
    /\ obNow = 0
    /\ obSnapTs = 0 /\ obSnapAt = 0
    /\ cCfg = [quote |-> obKind, hedge |-> "usdtm", only_pos |-> FALSE,
               mode |-> "taker", dry |-> FALSE]
    /\ cQuote = NoOb
    /\ cHedge \in FeedHedgeBooks
    /\ cEnv \in [fresh : {TRUE}, qvol : {200000}, hvol : {200000},
                 qref : RefPrices, href : RefPrices]
    /\ cRowsG = NoRows /\ cRowsC = NoRows
    /\ cCand = NoCand
    /\ cOrders = << >>
    /\ cRet = "none"
    /\ IdleDM /\ IdleHyb /\ IdleExit /\ IdleRest

\* Time passes.
ObTick ==
    /\ obNow < MaxNow
    /\ obNow' = obNow + 1
    /\ UNCHANGED <<obBids, obAsks, obLastU, obPc, obKind, obVenueU, obPub, obPubTs,
                   obSnapTs, obSnapAt>>
    /\ UNCHANGED nonObVars

\* One call of try_enter_unified by the strategy loop: the quote book is
\* what quote.get_books(limit=1) returns from the Bus now.
FeedTryEnter ==
    /\ cRet = "none"
    /\ LET quote == get_books(obPub, obPubTs)
           plan == EnterPlan(quote, cHedge,
                             cEnv.fresh /\ _require_orderbook(obPub, obPubTs))
       IN  /\ cQuote' = quote
           /\ EnterGates(plan)
           /\ plan.gate = "go" => EnterExecute(plan.cand)
    /\ UNCHANGED <<cHedge, cCfg, cEnv, cRowsC>>
    /\ UNCHANGED nonCandVars

\* Runner.loop sleeps and comes to its next call of try_enter_unified (after
\* an entry: once try_exit_unified has closed the position).
FeedNextCycle ==
    /\ cRet # "none"
    /\ cRet' = "none"
    /\ cOrders' = << >>
    /\ cCand' = NoCand
    /\ cRowsG' = NoRows
    /\ cQuote' = NoOb
    /\ UNCHANGED <<cHedge, cCfg, cEnv, cRowsC>>
    /\ UNCHANGED nonCandVars

NextFeed ==
    \/ ObVenueLose
    \/ ObConnectSnapshot
    \/ ObRecv
    \/ ObIntervalBreak
    \/ ObDisconnect
    \/ ObTick
    \/ FeedTryEnter
    \/ FeedNextCycle

SpecFeed == InitFeed /\ [][NextFeed]_vars

\* ======================================================================
\* try_enter_unified reading both legs' books from the Bus
\* (exchanges/legs.py, strategy/logic.py)
\* ======================================================================

\* What latest(ORDERBOOK, symbol) can hold for a leg: nothing, a book with
\* one side empty, or a level-1 book (quantity 1).
QuoteBusBooks ==
    { NoOb,
      [bids |-> EmptyBook, asks |-> Upsert(EmptyBook, 2, 1)],
      [bids |-> Upsert(EmptyBook, 1, 1), asks |-> Upsert(EmptyBook, 2, 1)] }
HedgeBusBooks ==
    { NoOb,
      [bids |-> Upsert(EmptyBook, 1, 1), asks |-> EmptyBook],
      [bids |-> Upsert(EmptyBook, 1, 1), asks |-> Upsert(EmptyBook, 1, 1)] }

\* Nothing is on the Bus yet; marks and volumes are given; taker mode with
\* real orders.
InitLegs ==
    /\ cCfg = [quote |-> "usdtm", hedge |-> "spot", only_pos |-> FALSE,
               mode |-> "taker", dry |-> FALSE]
    /\ cEnv \in [fresh : {TRUE}, qvol : {200000}, hvol : {200000},
                 qref : RefPrices, href : RefPrices,
                 q_ob : {NoOb}, q_ts : {0}, h_ob : {NoOb}, h_ts : {0}]
    /\ cQuote = NoOb /\ cHedge = NoOb
    /\ cRowsG = NoRows /\ cRowsC = NoRows
    /\ cCand = NoCand
    /\ cOrders = << >>
    /\ cRet = "none"
    /\ IdleDM /\ IdleOB /\ IdleHyb /\ IdleExit /\ IdleRest

\* A feed publishes a leg's OrderBook with ts = time.time().
LegsPublishQuote ==
    /\ \E b \in QuoteBusBooks : cEnv' = [cEnv EXCEPT !.q_ob = b, !.q_ts = obNow]
    /\ cEnv' # cEnv
    /\ UNCHANGED <<cQuote, cHedge, cCfg, cRowsG, cRowsC, cCand, cOrders, cRet>>
    /\ UNCHANGED nonCandVars

LegsPublishHedge ==
    /\ \E b \in HedgeBusBooks : cEnv' = [cEnv EXCEPT !.h_ob = b, !.h_ts = obNow]
    /\ cEnv' # cEnv
    /\ UNCHANGED <<cQuote, cHedge, cCfg, cRowsG, cRowsC, cCand, cOrders, cRet>>
    /\ UNCHANGED nonCandVars

\* One call of try_enter_unified: quote.get_books(limit=1) and
\* hedge.get_books(limit=1) read the Bus now; either may raise.
LegsTryEnter ==
    /\ cRet = "none"
    /\ LET quote == get_books(cEnv.q_ob, cEnv.q_ts)
           hedge == get_books(cEnv.h_ob, cEnv.h_ts)
           plan == EnterPlan(quote, hedge,
                             /\ cEnv.fresh
                             /\ _require_orderbook(cEnv.q_ob, cEnv.q_ts)
                             /\ _require_orderbook(cEnv.h_ob, cEnv.h_ts))
       IN  /\ cQuote' = quote
           /\ cHedge' = hedge
           /\ EnterGates(plan)
           /\ plan.gate = "go" => EnterExecute(plan.cand)
    /\ UNCHANGED <<cCfg, cEnv, cRowsC>>
    /\ UNCHANGED nonCandVars

NextLegs ==
    \/ LegsPublishQuote
    \/ LegsPublishHedge
    \/ ObTick
    \/ LegsTryEnter
    \/ FeedNextCycle

SpecLegs == InitLegs /\ [][NextLegs]_vars

\* ======================================================================
\* Runner.loop (app/main.py): one position from entry to exit, taker mode
\* ======================================================================

\* QUOTE_KIND / HEDGE_KIND pairs of a run; both functions read the same two.
RoundKinds ==
    { [quote |-> "usdtm", hedge |-> "coinm"], [quote |-> "usdtm", hedge |-> "spot"],
      [quote |-> "coinm", hedge |-> "spot"], [quote |-> "coinm", hedge |-> "coinm"] }

\* A COIN-M book quotes whole contracts.
WholeContracts(book) ==
    /\ \A i \in 1..Len(book.bids) : book.bids[i][2] % 1000 = 0
    /\ \A i \in 1..Len(book.asks) : book.asks[i][2] % 1000 = 0

\* No position is open; the entry and the exit read one configuration.
InitRound ==
    /\ \E k \in RoundKinds, op \in BOOLEAN, d \in BOOLEAN, t \in ExitThresholds :
          /\ cCfg = [quote |-> k.quote, hedge |-> k.hedge, only_pos |-> op,
                     mode |-> "taker", dry |-> d]
          /\ xCfg = [exit |-> t.exit, stop |-> t.stop, max_hold |-> t.max_hold,
                     quote |-> k.quote, hedge |-> k.hedge, dry |-> d]
    /\ cQuote \in QuoteBooks
    /\ cCfg.quote = "coinm" => WholeContracts(cQuote)
    /\ cHedge \in HedgeBooks(cCfg.hedge)
    /\ cEnv \in [fresh : BOOLEAN, qvol : Volumes, hvol : Volumes,
                 qref : RefPrices, href : RefPrices]
    /\ cRowsG = NoRows /\ cRowsC = NoRows
    /\ cCand = NoCand
    /\ cOrders = << >>
    /\ cRet = "none"
    /\ xPos = NoPosition
    /\ xRefs = [q |-> 0, h |-> 0]
    /\ xHeld = 0
    /\ xOrders = << >>
    /\ xRet = NotCalled
    /\ IdleDM /\ IdleOB /\ IdleHyb /\ IdleRest

\* "ok, pos = await try_enter_unified(); if ok: self.pos = pos": the Runner
\* keeps the returned Position; the mark prices are those of the next poll.
RunnerOpen ==
    /\ xPos = NoPosition
    /\ cRet = "position"
    /\ xPos' = EnteredPosition
    /\ \E h \in HedgeRef, k \in QuoteOffsets : xRefs' = [q |-> h + k, h |-> h]
    /\ xHeld' = 0
    /\ xOrders' = << >>
    /\ xRet' = NotCalled
    /\ UNCHANGED xCfg
    /\ UNCHANGED nonExitVars

\* "if trig: self.pos = None", and the loop is back at try_enter_unified.
RunnerCloseAndLoop ==
    /\ xRet.called /\ xRet.triggered
    /\ xPos' = NoPosition
    /\ xOrders' = << >>
    /\ xRet' = NotCalled
    /\ cRet' = "none"
    /\ cOrders' = << >>
    /\ cCand' = NoCand
    /\ cRowsG' = NoRows
    /\ UNCHANGED <<xRefs, xHeld, xCfg>>
    /\ UNCHANGED <<cQuote, cHedge, cCfg, cEnv, cRowsC>>
    /\ UNCHANGED <<dmVars, obVars, hybVars, restVars>>

NextRound ==
    \/ EnterTaker
    \/ RunnerOpen
    \/ ExitRefsMove
    \/ ExitClock
    \/ try_exit_unified
    \/ RunnerCloseAndLoop

SpecRound == InitRound /\ [][NextRound]_vars

\* ======================================================================
\* run_orderbook_ws with its clock: the snapshot-interval test
\* ======================================================================

\* snapshot_interval, in ticks.
SNAPSHOT_INTERVAL == 2

\* "snapshot_interval > 0 and (now - last_snapshot_ts) >= snapshot_interval"
IntervalReached(now, last_snapshot_ts) == now - last_snapshot_ts >= SNAPSHOT_INTERVAL

\* One iteration of "async for raw in ws": the interval test breaks out of
\* the loop before the message is parsed, otherwise the message is handled.
ObLoopIteration ==
    \E ev \in ObNextEvents :
        IF IntervalReached(obNow, obSnapTs)
        THEN /\ obPc = "loop"
             /\ obVenueU' = ev.u
             /\ obPc' = "connect"
             /\ UNCHANGED <<obBids, obAsks, obLastU, obKind, obPub, obPubTs, obNow,
                            obSnapTs, obSnapAt>>
             /\ UNCHANGED nonObVars
        ELSE ObOnDiff(ev)

NextObTimed ==
    \/ ObVenueLose
    \/ ObConnectSnapshot
    \/ ObLoopIteration
    \/ ObDisconnect
    \/ ObTick

SpecObTimed == InitOB /\ [][NextObTimed]_vars

\* ======================================================================
\* Runner.loop polling try_exit_unified for one Position (app/main.py)
\* ======================================================================

\* Exit orders accepted for one Position that the model follows.
MaxExitOrders == 3

\* The else branch of Runner.loop: try_exit_unified(self.pos), the orders
\* the venue accepted for this Position adding up over the ticks.
RunnerExitTick ==
    /\ Len(xOrders) < MaxExitOrders
    /\ ExitCall(xOrders)

\* The call returned (False, "") or raised and was logged; after
\* asyncio.sleep(0.25) the loop is at its next tick with self.pos unchanged.
\* Mark prices and the clock may have moved.
RunnerExitSleep ==
    /\ xRet.called /\ ~xRet.triggered
    /\ xRet' = NotCalled
    /\ \E k \in QuoteOffsets : xRefs' = [xRefs EXCEPT !.q = xRefs.h + k]
    /\ \E t \in HeldTimes : t >= xHeld /\ xHeld' = t
    /\ UNCHANGED <<xPos, xCfg, xOrders>>
    /\ UNCHANGED nonExitVars

NextExitLoop ==
    \/ ExitOpen
    \/ RunnerExitTick
    \/ RunnerExitSleep
    \/ RunnerClose

SpecExitLoop == InitExit /\ [][NextExitLoop]_vars

\* ======================================================================
\* Runner.loop (app/main.py) at try_enter_unified, taker and hybrid modes
\* ======================================================================

\* "ok, pos = await try_enter_unified()" gave ok = False, or the call raised
\* and "except Exception" logged it: self.pos stays None and, after
\* asyncio.sleep(0.25), the next tick calls try_enter_unified again.
RunnerRetry ==
    /\ xPos = NoPosition
    /\ cRet \in {"skip", "raise"}
    /\ hPc \in {"idle", "done"}
    /\ cRet' = "none"
    /\ cOrders' = << >>
    /\ cCand' = NoCand
    /\ cRowsG' = NoRows
    /\ hPc' = "idle"
    /\ hRet' = "none"
    /\ UNCHANGED <<cQuote, cHedge, cCfg, cEnv, cRowsC>>
    /\ UNCHANGED <<hCfg, hArgs, hOid, mkOrder, hUds, hNotif, hFilled, hPath, hCancel,
                   takerOrders>>
    /\ UNCHANGED <<dmVars, obVars, exitVars, restVars>>

NextLoop ==
    \/ EnterTaker
    \/ EnterHybridCall
    \/ VenueFill
    \/ UdsDeliver
    \/ UdsLose
    \/ HybNotified
    \/ HybTimeoutStatus
    \/ HybTimeoutCancel
    \/ HybTimeoutHedge
    \/ HybNotifyCancel
    \/ HybNotifyStatus
    \/ HybNotifyHedge
    \/ EnterHybridReturn
    \/ RunnerOpen
    \/ RunnerRetry

SpecLoop == InitEnter /\ [][NextLoop]_vars
\* ======================================================================
\* Claims about DepthMaintainer
\* ======================================================================

\* The continuity condition of a diff <<U, u, pu>> against a last applied id.
Continuity(U, u, pu, lu) ==
    IF pu # NoPu THEN pu = lu ELSE (U <= lu + 1 /\ lu + 1 <= u)

\* C1: whenever a diff arriving in READY fails the continuity check, the
\* handling of that diff completes with ready = false, and from the violation
\* until the next successful snapshot-plus-bridge no call of get_levels
\* returns ok = true (get_levels reads LevelsOk atomically under the lock, so
\* "no call returns true" is: wherever the lock is free, LevelsOk is false).
C1_GapHandlingEndsNotReady ==
    /\ violation ~> (wsPc = "idle" /\ ~ready)
    /\ [](violation /\ lockHolder = "none" => ~LevelsOk)

\* C3: after a successful resync, every diff applied by _on_msg satisfied the
\* continuity condition against last_u at the moment it was applied, and
\* last_u strictly increased with it.
C3_AppliedDiffsContinuous ==
    applied # NoApplied =>
        /\ Continuity(applied[1], applied[2], applied[3], applied[4])
        /\ applied[2] > applied[4]
        /\ last_u >= applied[2]

\* C3 witness: READY, and _on_msg has applied a diff that spans two update ids.
C3_Witness == ready /\ applied # NoApplied /\ applied[2] > applied[1]

\* C4: in every state with ready = true neither bids nor asks holds a price
\* level whose stored quantity is <= 0, whatever the snapshot held.
C4_ReadyNoNonPositiveLevel ==
    ready => /\ \A p \in DOMAIN bids : bids[p] > 0
             /\ \A p \in DOMAIN asks : asks[p] > 0

\* All the updates of one side carried by a run of diffs, in arrival order.
RECURSIVE SideUpdatesOf(_, _)
SideUpdatesOf(evs, side) ==
    IF evs = << >> THEN << >>
    ELSE (IF side = "b" THEN Head(evs).b ELSE Head(evs).a) \o SideUpdatesOf(Tail(evs), side)

\* The quantity a price must hold after `updates` were applied to the levels
\* of a snapshot: the last update of that price decides (0: absent); without
\* one, the snapshot's last entry for that price; 0 stands for "absent" when the
\* snapshot has no entry.
LastIdx(seq, p) == { i \in 1..Len(seq) : seq[i][1] = p /\ \A j \in (i + 1)..Len(seq) : seq[j][1] # p }

ExpectedBook(levels, updates, book) ==
    \A p \in Prices :
        IF LastIdx(updates, p) # {}
        THEN LET q == updates[CHOOSE i \in LastIdx(updates, p) : TRUE][2]
             IN  IF q = 0 THEN p \notin DOMAIN book
                 ELSE p \in DOMAIN book /\ book[p] = q
        ELSE IF LastIdx(levels, p) # {}
             THEN p \in DOMAIN book
                  /\ book[p] = levels[CHOOSE i \in LastIdx(levels, p) : TRUE][2]
             ELSE p \notin DOMAIN book

\* The events a drain applies: cached[k..], k the earliest bridging event.
DrainedEvents == SubSeq(cached, BridgeIdx(cached, last_update_id), Len(cached))

\* The spec's scenario: lastUpdateId = 100, buffered [95-101], [102-105].
ScenarioEvents ==
    << [U |-> 95, u |-> 101, pu |-> NoPu, b |-> << <<1, 2>> >>, a |-> << <<2, 1>> >>],
       [U |-> 102, u |-> 105, pu |-> NoPu, b |-> << <<1, 0>>, <<2, 1>> >>, a |-> << <<2, 2>> >>] >>

ScenarioResult ==
    CatchUp(SubSeq(ScenarioEvents, BridgeIdx(ScenarioEvents, 100), 2),
            SnapshotDict(<< <<1, 1>> >>), SnapshotDict(<< <<1, 3>> >>), 100)

\* C5: when a resync completes from a snapshot with lastUpdateId = S and
\* buffered diffs e1..en, ek the earliest with U <= S + 1 <= u, the book is the
\* snapshot with the deltas of ek..en applied in arrival order and last_u is
\* the u of the last applied diff; for S = 100 and [95-101], [102-105] the
\* result is last_u = 105 with the deltas of both diffs applied.
C5_ResyncAppliesBridgedDiffs ==
    /\ syncPc = "set_ready" =>
          /\ ExpectedBook(snapBody.bids, SideUpdatesOf(DrainedEvents, "b"), bids)
          /\ ExpectedBook(snapBody.asks, SideUpdatesOf(DrainedEvents, "a"), asks)
          /\ last_u = cached[Len(cached)].u
    /\ BridgeIdx(ScenarioEvents, 100) = 1
    /\ ~ScenarioResult.err
    /\ ScenarioResult.applied_u = 105
    /\ ScenarioResult.bids = (2 :> 1)
    /\ ScenarioResult.asks = (1 :> 3 @@ 2 :> 2)

\* C5 witness: a drain completed that bridged with an event starting at or
\* before the snapshot's id and applied a later event after it.
C5_Witness ==
    /\ syncPc = "set_ready"
    /\ Len(DrainedEvents) >= 2
    /\ DrainedEvents[1].U <= last_update_id
    /\ DrainedEvents[1].b # DrainedEvents[2].b


\* A run of diffs in which each starts where the one before it ended (and,
\* where the venue supplies pu, names the one before it).
Gapless(evs) ==
    \A i \in 1..(Len(evs) - 1) :
        /\ evs[i + 1].U = evs[i].u + 1
        /\ evs[i + 1].pu # NoPu => evs[i + 1].pu = evs[i].u

\* C21: with a gapless diff stream a resync completes: when the buffer copy
\* holds a bridging event (U <= lastUpdateId + 1 <= u) followed by a gapless
\* run of diffs, the catch-up ends without error and the replica goes on to
\* READY, for venues without pu and with pu alike, also when the bridging
\* event's pu differs from the snapshot's lastUpdateId.
C21_GaplessResyncCompletes ==
    [][ (syncPc = "apply" /\ syncPc' # "apply" /\ Gapless(DrainedEvents))
           => syncPc' = "set_ready" ]_vars

\* C22: no thread of DepthMaintainer waits for the lock while holding it
\* itself (threading.Lock is not reentrant, so such a wait never ends and
\* every later call of _on_msg, _trigger_resync and get_levels blocks too).
C22_NoThreadWaitsOnItsOwnLock ==
    /\ ~(wsPc = "trigger" /\ lockHolder = "ws")
    /\ ~(wdPc = "trigger" /\ lockHolder = "wd")

\* C23: no diff is lost across the SYNCING-to-READY transition: in READY
\* every diff received since the snapshot has been applied or has
\* u <= last_u, so none with a later u is left in the buffer.
C23_NoDiffLeftBehindAtReady ==
    ready => \A i \in 1..Len(buf) : buf[i].u <= last_u

\* C24: after a close or error event of the connection has been handled,
\* DepthMaintainer is not ready until a snapshot fetched after that event
\* has been installed and bridged, also when the event arrived while a
\* resync was in progress.
C24_NotReadyAfterConnectionEvent ==
    (evtSince /\ wsPc = "idle") => ~ready

\* C25: a replica does not stay ready for ever without applying a diff: the
\* watchdog sets ready = false (either ready is false again and again, or
\* diffs are applied again and again); and ready is set again only by a
\* sync that fetched a new snapshot and bridged it (the step that sets ready
\* is the one that follows a completed drain), whether or not the connection
\* was ever closed.
C25_StaleForcesResync ==
    /\ ([]<>(~ready)) \/ ([]<><<last_u' # last_u>>_vars)
    /\ [][ (~ready /\ ready') => (syncPc = "set_ready" /\ snapBody # NoSnap) ]_vars

\* C26: ready becomes true only in the step that follows a drain which found
\* a bridging event and caught up without a continuity violation; a drain
\* that finds no bridging event in its window, or meets a violation, leaves
\* ready false and ends the attempt, and the sync thread then goes on only
\* by installing a newly fetched snapshot.
C26_ReadyOnlyAfterCleanDrain ==
    [][ /\ (~ready /\ ready') => syncPc = "set_ready"
        /\ (syncPc # "set_ready" /\ syncPc' = "set_ready")
              => /\ syncPc = "apply"
                 /\ BridgeIdx(cached, last_update_id) # 0
                 /\ ~CatchUp(DrainedEvents, bids, asks, last_u).err
        /\ (syncPc \in {"drain", "apply"} /\ syncPc' = "finally") => ~ready'
        /\ (syncPc = "finally" /\ syncPc' # "finally") => syncPc' = "top"
        /\ (syncPc = "top" /\ syncPc' \notin {"top", "finally"})
              => (syncPc' = "drain" /\ last_u' = last_update_id' /\ ~evtSince')
      ]_vars

\* A catch-up has met a continuity violation: the attempt has ended with the
\* replica not ready.
C26_Witness ==
    /\ syncPc = "finally"
    /\ ~ready
    /\ cached # << >>
    /\ BridgeIdx(cached, last_update_id) # 0
    /\ CatchUp(DrainedEvents, SnapshotDict(snapBody.bids), SnapshotDict(snapBody.asks),
               last_update_id).err

\* ======================================================================
\* Claims about rejected diffs in both book maintainers
\* ======================================================================

\* A diff fails the continuity check against the last applied id `lu`: pu
\* present and pu # lu, or pu absent and U > lu + 1.
FailsContinuity(U, pu, lu) == IF pu # NoPu THEN pu # lu ELSE U > lu + 1

\* C2: a diff that fails the continuity check is not applied at all, in
\* DepthMaintainer._on_msg and in run_orderbook_ws alike: bids, asks and the
\* last applied update id are the same after the step that handles it as
\* before (a step that receives a diff is one in which the venue's last id
\* advances; the diff is the one starting at the venue's previous id + 1).
C2_FailedDiffNotApplied ==
    [][ /\ ( /\ ready
             /\ venueU' # venueU
             /\ FailsContinuity(venueU + 1, IF venue = "spot" THEN NoPu ELSE venueU, last_u) )
           => (bids' = bids /\ asks' = asks /\ last_u' = last_u)
        /\ ( /\ obPc = "loop"
             /\ obVenueU' # obVenueU
             /\ FailsContinuity(obVenueU + 1, IF obKind = "spot" THEN NoPu ELSE obVenueU,
                                obLastU) )
           => (obBids' = obBids /\ obAsks' = obAsks /\ obLastU' = obLastU)
      ]_vars

\* The pu field of the next diff of the adapter's stream (none on spot).
ObNextPu == IF obKind = "spot" THEN NoPu ELSE obVenueU

\* C20: run_orderbook_ws applies a diff (its last applied id advances inside
\* the diff loop) only when the diff is continuous with the last applied id:
\* pu = last_u where the venue supplies pu, U <= last_u + 1 where it does not;
\* and a step that handles a discontinuous diff leaves the book and the last
\* applied id alone and goes back to connecting and fetching a new snapshot.
C20_ObAppliesOnlyContinuous ==
    [][ /\ (obPc = "loop" /\ obLastU' # obLastU)
           => ~FailsContinuity(obVenueU + 1, ObNextPu, obLastU)
        /\ ( /\ obPc = "loop"
             /\ obVenueU' # obVenueU
             /\ FailsContinuity(obVenueU + 1, ObNextPu, obLastU)
             /\ <<obBids, obAsks, obLastU, obPc, obPub>>' # <<obBids, obAsks, obLastU, obPc, obPub>> )
           => (obPc' = "connect" /\ obBids' = obBids /\ obAsks' = obAsks /\ obLastU' = obLastU)
      ]_vars

\* C40: while its stream is connected and delivering diffs, run_orderbook_ws
\* rebuilds its book from a new REST snapshot at least once every
\* snapshot_interval: no diff is applied to a book whose snapshot is
\* snapshot_interval old or older.
C40_SnapshotEveryInterval ==
    [][ (obPc = "loop" /\ obPc' = "loop" /\ obLastU' # obLastU) =>
            obNow - obSnapAt < SNAPSHOT_INTERVAL ]_vars

\* ======================================================================
\* Claims about the candidate engine
\* ======================================================================

\* A candidate row meets the edge threshold of its side and the notional
\* floor (V_USD, the value min_vus defaults to) on both legs.
RowMeetsThresholds(r) ==
    /\ r.side = "POS" => RLeq(ENTER_BPS, r.edge_bps)
    /\ r.side = "NEG" => RLeq(r.edge_bps, RNeg(ENTER_BPS))
    /\ r.q_qty * r.px_quote >= V_USD * 1000
    /\ r.h_qty * r.px_hedge >= V_USD * 1000

AllRows(rows) == { rows.pos[i] : i \in 1..Len(rows.pos) } \cup
                 { rows.neg[i] : i \in 1..Len(rows.neg) }

\* C6: every candidate produced by the candidate engine (_get_candidate as
\* used by try_enter_unified, and _collect_unified_candidates) has
\* edge_bps >= the minimum edge when POS and <= minus it when NEG, and the
\* notional (quantity times price) of each leg is at least the minimum notional.
C6_CandidatesMeetThresholds ==
    /\ \A r \in AllRows(cRowsG) : RowMeetsThresholds(r)
    /\ \A r \in AllRows(cRowsC) : RowMeetsThresholds(r)
    /\ cCand # NoCand => RowMeetsThresholds(cCand)

\* ======================================================================
\* Claims about the hybrid executor
\* ======================================================================

\* The taker orders sent for maker order id `oid`.
OrdersOf(oid) == { i \in 1..Len(takerOrders) : takerOrders[i].oid = oid }

\* The current call has run to its end through the fill decision.
HybDecided == hPc = "done" /\ hPath # "none"

\* q is taker_qty * f / maker_qty exactly.
IsScaledQty(q) == q * hArgs.maker_qty = hArgs.taker_qty * hFilled

\* q is what the taker leg sends for taker_qty * f / maker_qty: that quantity
\* itself, or on a COIN-M leg the whole number of contracts below it.
IsSentScaledQty(q) ==
    IF hCfg.taker = "coinm"
    THEN /\ q % 1000 = 0
         /\ q * hArgs.maker_qty <= hArgs.taker_qty * hFilled
         /\ hArgs.taker_qty * hFilled < (q + 1000) * hArgs.maker_qty
    ELSE IsScaledQty(q)

\* C7 as stated: at most one taker market order per maker order id over every
\* path, and when one is placed its quantity is taker_qty * f / maker_qty.
C7_OneTakerOrderExactScale ==
    /\ \A i, j \in 1..Len(takerOrders) : takerOrders[i].oid = takerOrders[j].oid => i = j
    /\ HybDecided => \A i \in OrdersOf(hOid) : IsScaledQty(takerOrders[i].qty)

\* C7 amended: at most one taker market order per maker order id over every
\* path (fill notification or timeout recovery), and when one is placed the
\* quantity handed to the taker leg is taker_qty * f / maker_qty, which the leg
\* sends unchanged, except that a COIN-M leg truncates it to whole contracts.
C7_OneTakerOrderSentScale ==
    /\ \A i, j \in 1..Len(takerOrders) : takerOrders[i].oid = takerOrders[j].oid => i = j
    /\ \A i \in 1..Len(takerOrders) : takerOrders[i].oid \in 1..hOid
    /\ HybDecided => \A i \in OrdersOf(hOid) : IsSentScaledQty(takerOrders[i].qty)

\* C7 witness: the second maker order was partly filled (4 of 10), the fill
\* was notified, and the COIN-M taker leg was sent 2 contracts for 2.8; the
\* first maker order has its own taker order.
C7_Witness ==
    /\ HybDecided /\ hPath = "notify"
    /\ hOid = 2 /\ Len(takerOrders) = 2
    /\ hFilled = 4000 /\ hArgs.taker_qty = 7000
    /\ hCfg.taker = "coinm"
    /\ takerOrders[2].qty = 2000

\* C8 as stated: when the wait times out and the status query finds a nonzero
\* filled quantity f, the executor cancels the maker order and places exactly
\* one taker market order of quantity taker_qty * f / maker_qty (10 units with
\* 4 filled: 0.4 times the taker target).
C8_TimeoutHedgeExactScale ==
    (HybDecided /\ hPath = "timeout" /\ hFilled > 0) =>
        /\ hCancel # "none"
        /\ Cardinality(OrdersOf(hOid)) = 1
        /\ \A i \in OrdersOf(hOid) :
              /\ IsScaledQty(takerOrders[i].qty)
              /\ (hArgs.maker_qty = 10000 /\ hFilled = 4000)
                    => takerOrders[i].qty * 10 = 4 * hArgs.taker_qty

\* C8 amended: when the wait times out and the status query finds a nonzero
\* filled quantity f (no notification received), the executor requests the
\* cancel of the maker order (which is no longer open when the request
\* succeeds) and places exactly one taker market order, not reduce-only, whose
\* quantity handed to the taker leg is taker_qty * f / maker_qty; for 10 units
\* with 4 filled that is 0.4 times the taker target, sent as such on a spot or
\* USD-M leg and truncated to whole contracts on a COIN-M leg.
C8_TimeoutHedgeSentScale ==
    (HybDecided /\ hPath = "timeout" /\ hFilled > 0) =>
        /\ hNotif = NoFill
        /\ hCancel # "none"
        /\ hCancel = "ok" => mkOrder.state = "canceled"
        /\ Cardinality(OrdersOf(hOid)) = 1
        /\ \A i \in OrdersOf(hOid) :
              /\ IsSentScaledQty(takerOrders[i].qty)
              /\ ~takerOrders[i].reduce_only
              /\ (hArgs.maker_qty = 10000 /\ hFilled = 4000 /\ hCfg.taker # "coinm")
                    => takerOrders[i].qty * 10 = 4 * hArgs.taker_qty

\* C8 witness: a timeout with 4 of 10 units filled, the maker order cancelled
\* and one USD-M taker order of 0.4 x 7 = 2.8 units sent.
C8_Witness ==
    /\ HybDecided /\ hPath = "timeout"
    /\ hArgs.maker_qty = 10000 /\ hFilled = 4000 /\ hArgs.taker_qty = 7000
    /\ hCancel = "ok" /\ mkOrder.state = "canceled"
    /\ hCfg.taker = "usdtm"
    /\ \E i \in OrdersOf(hOid) : takerOrders[i].qty = 2800

\* The direction in which a candidate of the given side trades a leg: POS
\* buys the hedge leg and sells the quote leg, NEG the reverse (the sides of
\* the direct taker path of try_enter_unified).
CandidateSide(leg_is_hedge, side) ==
    IF leg_is_hedge THEN (IF side = "POS" THEN "BUY" ELSE "SELL")
    ELSE (IF side = "POS" THEN "SELL" ELSE "BUY")

\* C27: in _hybrid_maker_then_taker both legs are traded in the directions
\* of the candidate, whichever leg is the maker: the maker order and the
\* taker order of a call have the sides the candidate gives their legs, so
\* the taker order is on the opposite side to the maker order.
C27_HybridSidesFollowCandidate ==
    /\ mkOrder # NoOrder => mkOrder.side = CandidateSide(hCfg.maker_is_hedge, hArgs.side)
    /\ \A i \in 1..Len(takerOrders) :
          (takerOrders[i].oid = hOid /\ mkOrder # NoOrder) =>
              /\ takerOrders[i].side = CandidateSide(~hCfg.maker_is_hedge, hArgs.side)
              /\ takerOrders[i].side # mkOrder.side

\* C32: the quantity _hybrid_maker_then_taker hedges is the maker order's
\* final filled quantity: when the function returns after hedging, the maker
\* order can fill no further and the filled quantity the hedge was scaled
\* from is all the order has filled.
C32_HedgedQtyIsFinalFill ==
    (hPc = "done" /\ mkOrder # NoOrder /\ hRet = HybResult("hedged")) =>
        /\ mkOrder.state # "open"
        /\ hFilled = mkOrder.filled

\* C33: when the fill wait times out and the maker order has no confirmed
\* fill (the status query gives zero executed quantity), the executor
\* attempts to cancel the maker order, places no taker order and returns
\* False.
C33_TimeoutZeroFillAbandons ==
    [][ /\ (hPc = "wait" /\ hPath' = "timeout") => hPc' = "t_cancel"
        /\ (hPc = "t_cancel" /\ hFilled = 0 /\ hPc' # "t_cancel") =>
              /\ hCancel' \in {"ok", "raised"}
              /\ hPc' = "done"
              /\ hRet' = "false"
              /\ takerOrders' = takerOrders
              /\ OrdersOf(hOid) = {} ]_vars

\* C33 witness: the call returned False on the timeout path with nothing
\* filled, the maker order cancelled and no taker order sent.
C33_Witness ==
    /\ hPc = "done" /\ hPath = "timeout" /\ hFilled = 0 /\ hRet = "false"
    /\ mkOrder # NoOrder /\ mkOrder.state = "canceled" /\ mkOrder.filled = 0
    /\ hCancel = "ok" /\ OrdersOf(hOid) = {}

\* C34: on a fill notification the executor attempts to cancel the resting
\* maker order before it places the taker market order, and a failure of
\* that cancel neither aborts the hedge nor changes its quantity: the
\* quantity is computed from the notification and the status query alone.
C34_NotifyCancelsThenHedges ==
    [][ /\ (hPc = "wait" /\ hPath' = "notify") =>
              (hPc' = "n_cancel" /\ hCancel' = "none" /\ takerOrders' = takerOrders)
        /\ (hPc = "n_cancel" /\ hPc' # "n_cancel") =>
              /\ hCancel' \in {"ok", "raised"}
              /\ hPc' = "n_status"
              /\ takerOrders' = takerOrders
        /\ (hPc = "n_status" /\ hPc' # "n_status") =>
              /\ hFilled' \in { Max2(hNotif.lastQty, hNotif.cumQty),
                                Max2(Max2(hNotif.lastQty, hNotif.cumQty), mkOrder.filled) }
              /\ hFilled' > 0 => hPc' = "n_hedge"
              /\ takerOrders' = takerOrders
        /\ (hPath = "notify" /\ takerOrders' # takerOrders) =>
              /\ hCancel \in {"ok", "raised"}
              /\ Len(takerOrders') = Len(takerOrders) + 1
              /\ takerOrders'[Len(takerOrders')].qty =
                    LegQty(hCfg.taker, (hArgs.taker_qty * hFilled) \div hArgs.maker_qty) ]_vars

\* C34 witness: the cancel raised on the notification path and the taker
\* order for the notified 4 of 10 was still sent and accepted.
C34_Witness ==
    /\ hPc = "done" /\ hPath = "notify" /\ hCancel = "raised" /\ hRet = "true"
    /\ hFilled = 4000 /\ mkOrder.state = "open"
    /\ \E i \in OrdersOf(hOid) : takerOrders[i].accepted /\ takerOrders[i].qty > 0

\* ======================================================================
\* Claims about try_exit_unified
\* ======================================================================

\* spread (bps) <= t and spread >= t for the current mark prices, t = num/den.
SpreadLeq(t) == (xRefs.q - xRefs.h) * 10000 * t.den <= t.num * xRefs.h
SpreadGeq(t) == (xRefs.q - xRefs.h) * 10000 * t.den >= t.num * xRefs.h

\* The rules as stated, first match first.
StatedExitRule ==
    IF xPos.side = "POS" /\ SpreadLeq(xCfg.exit) THEN "profit"
    ELSE IF xPos.side = "POS" /\ SpreadGeq(xCfg.stop) THEN "stop"
    ELSE IF xPos.side = "NEG" /\ SpreadGeq(RNeg(xCfg.exit)) THEN "profit"
    ELSE IF xPos.side = "NEG" /\ SpreadLeq(RNeg(xCfg.stop)) THEN "stop"
    ELSE IF xHeld >= xCfg.max_hold THEN "hold"
    ELSE ""

\* C9: try_exit_unified triggers an exit exactly by these rules, in this
\* order, the first match giving the reason: POS: spread <= EXIT_BPS
\* (profit-take), else spread >= STOP_BPS (stop-loss); NEG: spread >= -EXIT_BPS,
\* else spread <= -STOP_BPS; then held time >= MAX_HOLD_SEC (forced unwind);
\* when no rule matches it returns (False, "") and places no order.
C9_ExitRulesInOrder ==
    (xRet.called /\ ~xRet.raised) =>
        /\ xRet.reason = StatedExitRule
        /\ xRet.triggered <=> StatedExitRule # ""
        /\ StatedExitRule = "" => xOrders = << >>

\* C9 witness: a NEG position past the hold limit whose spread is at the
\* stop-loss was closed with two orders for the reason "stop".
C9_Witness ==
    /\ xRet.called /\ xRet.triggered
    /\ xPos.side = "NEG" /\ xHeld >= xCfg.max_hold
    /\ xRet.reason = "stop"
    /\ Len(xOrders) = 2

\* The scenario of C10: POS, exit 2 bp, stop 100 bp, hold limit 1800 s, 10 s held.
C10_Scenario ==
    /\ xRet.called /\ ~xRet.raised
    /\ xPos.side = "POS"
    /\ xCfg.exit = RInt(2) /\ xCfg.stop = RInt(100) /\ xCfg.max_hold = 1800
    /\ xHeld = 10

\* spread = n/2 bp exactly.
SpreadIsHalves(n) == (xRefs.q - xRefs.h) * 10000 * 2 = n * xRefs.h

\* C10 as stated: the decision is a function of (side, spread, elapsed time,
\* thresholds), and in the scenario it gives no trigger at 1.5 bp and a
\* profit-take trigger at 2.5 bp.
C10_ScenarioAsStated ==
    /\ (xRet.called /\ ~xRet.raised) =>
          xRet.reason = ExitReason(xPos.side, _spread_bps(xRefs.q, xRefs.h), xHeld, xCfg)
    /\ (C10_Scenario /\ SpreadIsHalves(3)) => (~xRet.triggered /\ xRet.reason = "")
    /\ (C10_Scenario /\ SpreadIsHalves(5)) => (xRet.triggered /\ xRet.reason = "profit")

\* C10 amended: the decision is a function of (side, spread, elapsed time,
\* thresholds), and in the scenario it gives a profit-take trigger at 1.5 bp
\* and no trigger at 2.5 bp.
C10_ScenarioAsCoded ==
    /\ (xRet.called /\ ~xRet.raised) =>
          /\ xRet.reason = ExitReason(xPos.side, _spread_bps(xRefs.q, xRefs.h), xHeld, xCfg)
          /\ xRet.triggered <=> xRet.reason # ""
    /\ (C10_Scenario /\ SpreadIsHalves(3)) => (xRet.triggered /\ xRet.reason = "profit")
    /\ (C10_Scenario /\ SpreadIsHalves(5)) => (~xRet.triggered /\ xRet.reason = "")

\* C10 witness: the scenario at 1.5 bp, where the call returned a profit-take.
C10_Witness == C10_Scenario /\ SpreadIsHalves(3) /\ xRet.reason = "profit"

\* C37: for one Position each leg's exit market order is accepted at most
\* once: when the second leg's exit order fails after the first leg's was
\* accepted, no later tick of Runner.loop submits the first leg's again.
C37_EachLegExitedOnce ==
    \A i, j \in 1..Len(xOrders) : xOrders[i].leg = xOrders[j].leg => i = j

\* ======================================================================
\* Claims about the Bus
\* ======================================================================

\* The step is a run of publish_async for the oldest task.
PublishRuns == bTasks # << >> /\ bLog' = Append(bLog, Head(bTasks))

\* C11: order books and mark prices of two registered legs that share a
\* symbol but differ in kind are kept under distinct keys: a publish made for
\* one leg never changes the value a leg of another kind reads through
\* bus.latest (_get_ob, _get_mark).
C11_OtherKindReadUnchanged ==
    [][ PublishRuns =>
           \A r \in Regs :
              r[1] # Head(bTasks).value.kind =>
                 /\ _get_ob(r[2])' = _get_ob(r[2])
                 /\ _get_mark(r[2])' = _get_mark(r[2]) ]_vars

\* The item a subscriber's queue receives for the task t (none when the
\* subscription does not match): the value for an exact key, (key, value) for
\* a wildcard.
ItemFor(s, t) ==
    IF bSubs[s].mode = "exact" /\ bSubs[s].topic = t.topic /\ bSubs[s].key = t.key
    THEN {t.value}
    ELSE IF bSubs[s].mode = "wild" /\ bSubs[s].topic = t.topic
    THEN {<<t.key, t.value>>}
    ELSE {}

\* C18: when publish_async delivers a value to a subscriber whose queue holds
\* max_queue items, the oldest queued item is removed and the new value is
\* enqueued; a queue with room just receives it.  The delivery always
\* completes (no blocking, no exception), no queue ever holds more than
\* max_queue items, and the value just published is the newest item of every
\* matching queue.
C18_FullQueueDropsOldest ==
    [][ /\ \A s \in Subscribers : Len(bSubs'[s].q) <= MaxQueue
        /\ bTasks # << >> => ENABLED publish_async
        /\ PublishRuns =>
              \A s \in Subscribers : \A item \in ItemFor(s, Head(bTasks)) :
                 LET q == bSubs[s].q
                     qn == bSubs'[s].q
                 IN  /\ qn # << >> /\ qn[Len(qn)] = item
                     /\ Len(q) >= MaxQueue => qn = Append(Tail(q), item)
                     /\ Len(q) < MaxQueue => qn = Append(q, item) ]_vars

\* C18 witness: a full queue has received a value: its oldest item was
\* discarded, it is still full and its newest item is the value published last.
C18_Witness ==
    \E s \in Subscribers :
        /\ bSubs[s].mode = "exact"
        /\ bSubs[s].dropped # {}
        /\ Len(bSubs[s].q) = MaxQueue
        /\ bSubs[s].q[MaxQueue] = bLatest[<<bSubs[s].topic, bSubs[s].key>>]
        /\ bSubs[s].q[MaxQueue].id = MaxPub

\* What an exact-key subscriber has been given so far: yielded, then queued.
SeenBy(s) == bSubs[s].got \o bSubs[s].q

\* What it is owed: latest at registration (if any), then the values
\* publish_async ran for its (topic, key) since, in that order.
RECURSIVE ValuesSince(_, _, _)
ValuesSince(i, topic, key) ==
    IF i > Len(bLog) THEN << >>
    ELSE (IF bLog[i].topic = topic /\ bLog[i].key = key
          THEN << bLog[i].value >> ELSE << >>) \o ValuesSince(i + 1, topic, key)

OwedTo(s) ==
    (IF bSubs[s].first # NoValue THEN << bSubs[s].first >> ELSE << >>)
        \o ValuesSince(bSubs[s].regIdx + 1, bSubs[s].topic, bSubs[s].key)

\* C19: an exact-key subscriber receives first the value latest(topic, key)
\* held at registration (if any), then the values published to that
\* (topic, key) in publish order, each at most once, only overflow-dropped
\* values missing; nothing published to another key or topic reaches it.
C19_ExactSubscriberStream ==
    \A s \in Subscribers :
        bSubs[s].mode = "exact" =>
            /\ SeenBy(s) = SelectSeq(OwedTo(s), LAMBDA v : v \notin bSubs[s].dropped)
            /\ \A i, j \in 1..Len(SeenBy(s)) : i < j => SeenBy(s)[i].id < SeenBy(s)[j].id

\* C19 witness: a late joiner was given the latest value first and then a
\* value published to its key, has yielded at least the first, and a value
\* published meanwhile to another key or topic was not delivered to it.
C19_Witness ==
    \E s \in Subscribers :
        /\ bSubs[s].mode = "exact"
        /\ bSubs[s].first # NoValue
        /\ Len(bSubs[s].got) >= 1 /\ bSubs[s].got[1] = bSubs[s].first
        /\ Len(SeenBy(s)) = 2
        /\ Len(bLog) = bSubs[s].regIdx + 2

\* ======================================================================
\* Claims about PendingManager
\* ======================================================================

\* The registry entries the caller's registration owns.
EntriesOf(c) == { en \in pmOrders : en.owner = c }

\* C12: at most one wait is outstanding per order id at any time; a register
\* call for an order id that is already pending creates no second waiter and
\* leaves the first as it is; a registration leaves the registry exactly
\* once, in the step that ends its own wait (notification or timeout), so
\* that no entry of it remains after register has returned.
C12_OneWaitPerOrderRemovedOnce ==
    [][ /\ \A c, d \in Callers :
              (c # d /\ pmCall'[c].pc = "waiting" /\ pmCall'[d].pc = "waiting")
                 => pmCall'[c].order_id # pmCall'[d].order_id
        /\ \A c \in Callers :
              /\ (/\ pmCall[c].pc = "idle" /\ pmCall'[c].pc # "idle"
                  /\ \E d \in Callers \ {c} :
                         /\ pmCall[d].pc = "waiting"
                         /\ pmCall[d].order_id = pmCall'[c].order_id)
                    => /\ pmCall'[c].pc = "returned"
                       /\ pmOrders' = pmOrders /\ pmObj' = pmObj
              /\ (EntriesOf(c) # {} /\ EntriesOf(c)' = {})
                    => (pmCall[c].pc = "waiting" /\ pmCall'[c].pc = "returned")
              /\ (pmCall[c].pc = "waiting" /\ pmCall'[c].pc = "returned")
                    => (EntriesOf(c) # {} /\ EntriesOf(c)' = {})
              /\ pmCall'[c].pc = "returned" => EntriesOf(c)' = {} ]_vars

\* The status of a payload lets on_fill resolve a wait.
Qualifies(fill_data) == fill_data.status \in {"PARTIALLY_FILLED", "FILLED"}

\* The payload is an event for the order the call registered: its order id
\* and the market of its key.
ForOrderOf(call, fill_data) ==
    fill_data.orderId = call.order_id /\ fill_data.market = call.market

C36_EndOfWaitRemovesOnlyOwnEntry ==
    [][ \A c \in Callers :
          /\ (pmCall[c].pc = "waiting" /\ pmCall'[c].pc = "returned") =>
                pmOrders' = pmOrders \ EntriesOf(c)
          /\ pmCall'[c].pc = "waiting" => EntriesOf(c)' # {} ]_vars

\* ======================================================================
\* Claims about the entry path
\* ======================================================================

\* The executor has returned after a confirmed maker fill whose taker hedge
\* was not accepted by the venue: one leg is open and unhedged.
NakedAfterFill ==
    /\ hPc = "done"
    /\ hFilled > 0
    /\ \E i \in 1..Len(takerOrders) :
          takerOrders[i].oid = hOid /\ ~takerOrders[i].accepted

\* The routine no-trade outcomes of the executor and of try_enter_unified.
RoutineHybSites == {"maker_rejected", "not_filled", "zero_fill"}
RoutineEnterSites == {"data", "volume", "no_candidate", "slippage"}

\* C13: when the taker hedge fails after a confirmed maker fill, what
\* _hybrid_maker_then_taker returns differs from what it returns for every
\* routine outcome (maker rejected, maker not filled), and what
\* try_enter_unified then returns differs from what it returns for every
\* routine rejection (data, liquidity, no candidate, slippage).
C13_NakedExposureDistinct ==
    NakedAfterFill =>
        /\ \A r \in RoutineHybSites : hRet # HybResult(r)
        /\ cRet \notin {"none", "awaiting"} =>
              \A s \in RoutineEnterSites : cRet # EnterResult(s)

\* C14: every market order placed on the entry path (both legs in taker
\* mode, the taker hedge of the executor on the notification path and on the
\* timeout-recovery path) is placed with reduce_only = false.
C14_EntryOrdersNotReduceOnly ==
    /\ \A i \in 1..Len(cOrders) : ~cOrders[i].reduce_only
    /\ \A i \in 1..Len(takerOrders) : ~takerOrders[i].reduce_only

\* Taker mode has placed both legs and returned the position.
C14_Witness ==
    /\ cCfg.mode = "taker"
    /\ Len(cOrders) = 2
    /\ cRet = EnterResult("entered")

\* The level-1 quantities of the side of each book the candidate was taken
\* from, and the per-leg quantities of the notional target.
LevelQtyOf(book, side) == IF side = "POS" THEN book.asks[1][2] ELSE book.bids[1][2]
QuoteTarget == qty_from_usd(cCfg.quote, V_USD, cEnv.qref)
HedgeTarget == qty_from_usd(cCfg.hedge, V_USD, cEnv.href)

\* C16: the quantities of every candidate try_enter_unified executes are at
\* most the resting quantity of the level they were taken from and at most
\* the leg's quantity for the notional target, qty_from_usd(V_USD).
C16_ExecutedQtyWithinDepthAndTarget ==
    cRet = EnterResult("entered") =>
        /\ cCand.q_qty <= LevelQtyOf(cQuote, cCand.side)
        /\ cCand.h_qty <= LevelQtyOf(cHedge, cCand.side)
        /\ cCand.q_qty <= QuoteTarget
        /\ cCand.h_qty <= HedgeTarget

\* V_USD exceeds 1% of a leg's last-minute volume, or a volume is missing.
CapExceeded ==
    \/ cEnv.qvol = 0 \/ cEnv.hvol = 0
    \/ V_USD * 100 > cEnv.qvol
    \/ V_USD * 100 > cEnv.hvol

\* C17: whenever V_USD exceeds 1% of the last-minute traded notional of the
\* quote leg or of the hedge leg, or a volume cannot be obtained,
\* try_enter_unified places no order and returns (False, None), whatever
\* the edge of the books.
C17_LiquidityCapRejects ==
    CapExceeded =>
        /\ cRet \in {"none", EnterResult("volume")}
        /\ cOrders = << >> /\ takerOrders = << >> /\ mkOrder = NoOrder

\* The call has returned on fresh books that hold an edge, with enough
\* quote-leg volume and too little hedge-leg volume.
C17_Witness ==
    /\ cRet = EnterResult("volume")
    /\ cEnv.fresh
    /\ cEnv.qvol = 200000 /\ cEnv.hvol = 50000
    /\ _get_candidate(cQuote.bids, cQuote.asks, cHedge.bids, cHedge.asks,
                      ENTER_BPS, cCfg.only_pos).pos # << >>

\* C28: the candidate try_enter_unified uses is priced on the book sides on
\* which its entry orders execute: a POS candidate at the hedge leg's ask and
\* the quote leg's bid, with edge (quoteBid - hedgeAsk) / hedgeAsk * 10000, a
\* NEG candidate at the hedge leg's bid and the quote leg's ask.
C28_CandidatePricedAtExecutionSides ==
    cCand # NoCand =>
        /\ cCand.side = "POS" =>
              /\ cCand.px_hedge = cHedge.asks[1][1]
              /\ cCand.px_quote = cQuote.bids[1][1]
              /\ cCand.edge_bps = _spread_bps(cQuote.bids[1][1], cHedge.asks[1][1])
        /\ cCand.side = "NEG" =>
              /\ cCand.px_hedge = cHedge.bids[1][1]
              /\ cCand.px_quote = cQuote.asks[1][1]
              /\ cCand.edge_bps = _spread_bps(cQuote.asks[1][1], cHedge.bids[1][1])

\* The quantity a hybrid entry executed on a leg: the maker order's filled
\* quantity on the maker leg, the accepted taker order's on the taker leg.
HybExecutedQty(leg_is_hedge) ==
    IF leg_is_hedge = hCfg.maker_is_hedge
    THEN mkOrder.filled
    ELSE IF \E i \in OrdersOf(hOid) : takerOrders[i].accepted
         THEN takerOrders[CHOOSE i \in OrdersOf(hOid) : takerOrders[i].accepted].qty
         ELSE 0

\* C30: after a hybrid entry whose maker order filled only a part of its
\* target, the Position try_enter_unified returns records the quantities
\* executed on the two legs (the filled fraction of the candidate's), not the
\* candidate's full quantities.
C30_PositionRecordsExecutedQty ==
    (/\ cRet = "position" /\ cCfg.mode = "hybrid" /\ ~cCfg.dry
     /\ mkOrder # NoOrder /\ mkOrder.filled < hArgs.maker_qty) =>
        /\ cCfg.hedge # "coinm" => EnteredPosition.Q = HybExecutedQty(TRUE)
        /\ cCfg.quote = "coinm" => EnteredPosition.N * 1000 = HybExecutedQty(FALSE)

\* An entry order of the current call that a venue accepted and filled:
\* a taker leg's market order, or a fill of the maker order.
EntryExposure ==
    \/ cOrders # << >>
    \/ (mkOrder # NoOrder /\ mkOrder.filled > 0)

\* C31: at a tick boundary of Runner.loop the runner goes back to
\* try_enter_unified with pos = None only when no accepted entry order is
\* left without an exit: not after the second leg's market order failed
\* behind an accepted first one, and not after the maker order filled and
\* the taker hedge failed or was skipped.
C31_NoReentryWhileExposed ==
    [][ (xPos = NoPosition /\ xPos' = NoPosition /\ cRet # "none" /\ cRet' = "none")
            => ~EntryExposure ]_vars

\* ======================================================================
\* Claims about the strategy reading the replica
\* ======================================================================

\* C15: while the replica is between leaving its diff loop (gap, resync
\* condition, lost connection) and its next publish from a new snapshot, a
\* call of try_enter_unified returns (False, None) and places no order.
C15_NotReadyMeansSkip ==
    [][ (cRet = "none" /\ cRet' # "none" /\ obPc = "connect")
           => (cRet' = EnterResult("data") /\ cOrders' = << >>) ]_vars

\* The leg's latest snapshot is absent, has an empty side, or is older than
\* ORDERBOOK_MAX_AGE_SEC.
SnapshotUnusable(ob, ts) ==
    \/ ob = NoOb
    \/ DOMAIN ob.bids = {} \/ DOMAIN ob.asks = {}
    \/ obNow - ts > ORDERBOOK_MAX_AGE_SEC

\* C39: try_enter_unified places no order and returns (False, None) in any
\* cycle in which, for either leg, the latest order-book snapshot on the Bus
\* is absent, has an empty side, or is older than ORDERBOOK_MAX_AGE_SEC.
C39_UnusableBookMeansSkip ==
    [][ (/\ cRet = "none" /\ cRet' # "none"
         /\ \/ SnapshotUnusable(cEnv.q_ob, cEnv.q_ts)
            \/ SnapshotUnusable(cEnv.h_ob, cEnv.h_ts))
           => (cRet' = "skip" /\ cOrders' = << >> /\ cCand' = NoCand) ]_vars

\* C39 witness: the cycle was skipped with both books complete, the hedge
\* leg's published now and the quote leg's two ticks ago.
C39_Witness ==
    /\ cRet = "skip" /\ cOrders = << >>
    /\ DOMAIN cEnv.q_ob.bids # {} /\ DOMAIN cEnv.q_ob.asks # {}
    /\ DOMAIN cEnv.h_ob.bids # {} /\ DOMAIN cEnv.h_ob.asks # {}
    /\ obNow - cEnv.q_ts > ORDERBOOK_MAX_AGE_SEC
    /\ cEnv.h_ts = obNow

\* The skew threshold, in ticks: below the age limit, which is one tick.
SKEW_MAX == 0

\* |ts_quote - ts_hedge| of the two snapshots a call reads.
Skew == IF cEnv.q_ts >= cEnv.h_ts THEN cEnv.q_ts - cEnv.h_ts ELSE cEnv.h_ts - cEnv.q_ts

\* C38: try_enter_unified skips the cycle, placing no order, whenever the
\* difference between the last-update timestamps of the two legs' book
\* snapshots exceeds the skew threshold.
C38_SkewMeansSkip ==
    [][ (/\ cRet = "none" /\ cRet' # "none"
         /\ cEnv.q_ob # NoOb /\ cEnv.h_ob # NoOb
         /\ Skew > SKEW_MAX)
           => (cRet' = "skip" /\ cOrders' = << >>) ]_vars

\* ======================================================================
\* Claims about a position from entry to exit
\* ======================================================================

\* The quantity the entry sent on a leg (0: no entry order on that leg).
OpenedQty(leg) ==
    IF \E i \in 1..Len(cOrders) : cOrders[i].leg = leg
    THEN cOrders[CHOOSE i \in 1..Len(cOrders) : cOrders[i].leg = leg].qty
    ELSE 0

\* The Position has a field for the leg's quantity and it is set: Q is the
\* hedge leg's quantity unless that leg is COIN-M, N the quote leg's contracts
\* when that leg is COIN-M.
PositionRecords(leg) ==
    IF leg = "hedge" THEN xCfg.hedge # "coinm" /\ xPos.Q > 0
    ELSE xCfg.quote = "coinm" /\ xPos.N > 0

\* The notional-derived estimate for a leg, as the leg sends it.
EstimatedQty(leg) ==
    IF leg = "hedge" THEN LegQty(xCfg.hedge, qty_from_usd(xCfg.hedge, V_USD, xRefs.h))
    ELSE LegQty(xCfg.quote, qty_from_usd(xCfg.quote, V_USD, xRefs.q))

\* C29: when an exit triggers, the market order on each leg has the quantity
\* the Position records for that leg, which is the quantity opened on that
\* leg at entry; qty_from_usd(V_USD) is used only for a leg for which the
\* Position records no quantity; for every pair of leg kinds.
C29_ExitSizedFromRecordedQty ==
    \A i \in 1..Len(xOrders) :
        IF PositionRecords(xOrders[i].leg)
        THEN xOrders[i].qty = OpenedQty(xOrders[i].leg)
        ELSE xOrders[i].qty = EstimatedQty(xOrders[i].leg)

=============================================================================
